---- MODULE Spec2Model ----
(***************************************************************************)
(* Model of the hand-rolled HTTP/1.1 server: the request framer            *)
(* (WebServer.parse_request_from_buffer), the per-connection loop          *)
(* (WebServer.handle_client), the middleware fold and send_response.       *)
(* Byte strings and text are sequences of one-character strings.           *)
(***************************************************************************)
EXTENDS Integers, Sequences, FiniteSets, TLC

(***************************************************************************)
(* Bounds of the model.  The buffer cap and the read size are the          *)
(* program's 10 MiB and 4096, scaled down so that an overflow is reached.  *)
(***************************************************************************)
MAX_BUFFER_SIZE == 64
RecvSize == 48

Min(a, b) == IF a < b THEN a ELSE b

(***************************************************************************)
(* Python str / bytes primitives used by the framer.                       *)
(***************************************************************************)
CR == "\r"
LF == "\n"
CRLF == <<CR, LF>>
Whitespace == {" ", "\t", CR, LF}
\* A byte that is not valid UTF-8 (0xFF).
BadByte == "xFF"

LowerLetters == <<"a","b","c","d","e","f","g","h","i","j","k","l","m",
                  "n","o","p","q","r","s","t","u","v","w","x","y","z">>
UpperLetters == <<"A","B","C","D","E","F","G","H","I","J","K","L","M",
                  "N","O","P","Q","R","S","T","U","V","W","X","Y","Z">>
Digits == <<"0","1","2","3","4","5","6","7","8","9">>

IsAt(s, pat, i) ==
    /\ i >= 1
    /\ i + Len(pat) - 1 <= Len(s)
    /\ SubSeq(s, i, i + Len(pat) - 1) = pat

\* bytes.find / str.find: 0-based index of the first occurrence, or -1.
find(s, pat) ==
    IF \E i \in 1..Len(s) : IsAt(s, pat, i)
    THEN (CHOOSE i \in 1..Len(s) :
             IsAt(s, pat, i) /\ \A j \in 1..(i - 1) : ~IsAt(s, pat, j)) - 1
    ELSE -1

Contains(s, pat) == find(s, pat) # -1

\* Python slices s[:n] and s[n:].
Take(s, n) == SubSeq(s, 1, Min(n, Len(s)))
Drop(s, n) == SubSeq(s, n + 1, Len(s))

startswith(s, pat) == IsAt(s, pat, 1)

\* str.split(sep): every occurrence of sep separates two parts.
RECURSIVE split(_, _)
split(s, sep) ==
    LET i == find(s, sep)
    IN  IF i = -1 THEN <<s>>
        ELSE <<Take(s, i)>> \o split(Drop(s, i + Len(sep)), sep)

\* str.split(sep, 1): at most one split.
split1(s, sep) ==
    LET i == find(s, sep)
    IN  IF i = -1 THEN <<s>> ELSE <<Take(s, i), Drop(s, i + Len(sep))>>

RECURSIVE lstrip(_)
lstrip(s) == IF s # <<>> /\ Head(s) \in Whitespace THEN lstrip(Tail(s)) ELSE s

RECURSIVE rstrip(_)
rstrip(s) ==
    IF s # <<>> /\ s[Len(s)] \in Whitespace THEN rstrip(Take(s, Len(s) - 1)) ELSE s

\* str.strip()
strip(s) == rstrip(lstrip(s))

upperChar(ch) ==
    IF \E i \in 1..26 : LowerLetters[i] = ch
    THEN UpperLetters[CHOOSE i \in 1..26 : LowerLetters[i] = ch]
    ELSE ch

lowerChar(ch) ==
    IF \E i \in 1..26 : UpperLetters[i] = ch
    THEN LowerLetters[CHOOSE i \in 1..26 : UpperLetters[i] = ch]
    ELSE ch

\* str.upper() / str.lower()
upper(s) == [i \in 1..Len(s) |-> upperChar(s[i])]
lower(s) == [i \in 1..Len(s) |-> lowerChar(s[i])]

IsDigit(ch) == \E i \in 1..10 : Digits[i] = ch
DigitVal(ch) == (CHOOSE i \in 1..10 : Digits[i] = ch) - 1

RECURSIVE DigitsVal(_)
DigitsVal(s) ==
    IF s = <<>> THEN 0 ELSE 10 * DigitsVal(Take(s, Len(s) - 1)) + DigitVal(s[Len(s)])

\* int(str): surrounding whitespace, an optional sign, then decimal digits;
\* anything else raises ValueError.
IntSign(s) == IF s # <<>> /\ s[1] \in {"+", "-"} THEN <<s[1]>> ELSE <<>>
IntBody(s) == Drop(strip(s), Len(IntSign(strip(s))))
IntValid(s) == IntBody(s) # <<>> /\ \A i \in 1..Len(IntBody(s)) : IsDigit(IntBody(s)[i])
IntValue(s) ==
    IF IntSign(strip(s)) = <<"-">> THEN 0 - DigitsVal(IntBody(s)) ELSE DigitsVal(IntBody(s))

\* bytes.decode("utf-8") succeeds iff every byte is valid.
Utf8Ok(b) == \A i \in 1..Len(b) : b[i] # BadByte


(***************************************************************************)
(* urllib.parse as used by parse_url_path_and_query.                       *)
(***************************************************************************)
HexDigits == {"0","1","2","3","4","5","6","7","8","9",
              "a","b","c","d","e","f","A","B","C","D","E","F"}

\* The ASCII codes that occur in the modelled inputs.
PercentChar(h) ==
    CASE upper(h) = <<"2","0">> -> " "
      [] upper(h) = <<"2","F">> -> "/"
      [] upper(h) = <<"3","F">> -> "?"
      [] upper(h) = <<"2","3">> -> "#"
      [] upper(h) = <<"2","6">> -> "&"
      [] upper(h) = <<"3","D">> -> "="
      [] upper(h) = <<"2","5">> -> "%"
      [] upper(h) = <<"6","1">> -> "a"
      [] OTHER -> "xFFFD"

\* urllib.parse.unquote: every %XX with two hex digits becomes one character.
RECURSIVE unquote(_)
unquote(s) ==
    IF s = <<>> THEN <<>>
    ELSE IF /\ s[1] = "%"
            /\ Len(s) >= 3
            /\ s[2] \in HexDigits
            /\ s[3] \in HexDigits
         THEN <<PercentChar(SubSeq(s, 2, 3))>> \o unquote(Drop(s, 3))
         ELSE <<s[1]>> \o unquote(Tail(s))

\* str.replace("+", " ")
plusToSpace(s) == [i \in 1..Len(s) |-> IF s[i] = "+" THEN " " ELSE s[i]]

\* End of the netloc of a target that starts with "//": the first of / ? #
\* after the two slashes (urllib.parse._splitnetloc), as a count of characters.
NetlocEnd(url) ==
    IF \E i \in 3..Len(url) : url[i] \in {"/", "?", "#"}
    THEN (CHOOSE i \in 3..Len(url) :
             url[i] \in {"/", "?", "#"} /\ \A j \in 3..(i - 1) : url[j] \notin {"/", "?", "#"}) - 1
    ELSE Len(url)

\* urllib.parse.urlsplit of a request-target: netloc, then fragment, then
\* query are cut off; what is left is the path.
urlsplit(url) ==
    LET hasNetloc == startswith(url, <<"/", "/">>)
        netloc    == IF hasNetloc THEN SubSeq(url, 3, NetlocEnd(url)) ELSE <<>>
        rest      == IF hasNetloc THEN Drop(url, NetlocEnd(url)) ELSE url
        noFrag    == split1(rest, <<"#">>)[1]
        pq        == split1(noFrag, <<"?">>)
    IN  [ path   |-> pq[1],
          query  |-> IF Len(pq) = 2 THEN pq[2] ELSE <<>>,
          netloc |-> netloc,
          \* "Invalid IPv6 URL": unbalanced brackets in the netloc
          invalid |-> Contains(netloc, <<"[">>) # Contains(netloc, <<"]">>) ]

\* One name=value field of urllib.parse.parse_qs(keep_blank_values=True).
QsField(nv) ==
    LET parts == split1(nv, <<"=">>)
    IN  [ name  |-> unquote(plusToSpace(parts[1])),
          value |-> IF Len(parts) = 2 THEN unquote(plusToSpace(parts[2])) ELSE <<>> ]

\* parse_qs: the fields separated by "&", empty fields skipped; each name
\* maps to the list of its values in arrival order.
RECURSIVE QsFold(_, _)
QsFold(fields, acc) ==
    IF fields = <<>> THEN acc
    ELSE IF Head(fields) = <<>> THEN QsFold(Tail(fields), acc)
    ELSE LET f    == QsField(Head(fields))
             old  == IF f.name \in DOMAIN acc THEN acc[f.name] ELSE <<>>
         IN  QsFold(Tail(fields), (f.name :> Append(old, f.value)) @@ acc)

parse_qs(query) == QsFold(split(query, <<"&">>), <<>>)

\* A value of query_params: the single string of a key (values has it as
\* its one element) or the list of a key's strings.
ScalarParam(value) == [scalar |-> TRUE, values |-> <<value>>]
ListParam(values) == [scalar |-> FALSE, values |-> values]

\* The loop over query_params_raw that keeps the first value of each key.
query_params_FirstOnly(query_params_raw) ==
    [key \in DOMAIN query_params_raw |-> ScalarParam(query_params_raw[key][1])]

\* The loop over query_params_raw: values[0] for one value, else the list.
query_params(query_params_raw) ==
    [key \in DOMAIN query_params_raw |->
        IF Len(query_params_raw[key]) = 1
        THEN ScalarParam(query_params_raw[key][1])
        ELSE ListParam(query_params_raw[key])]

\* WebServer.parse_url_path_and_query.
parse_url_path_and_query(path_with_query_str) ==
    LET parsed_url == urlsplit(path_with_query_str)
    IN  [ path    |-> unquote(parsed_url.path),
          params  |-> query_params(parse_qs(parsed_url.query)),
          invalid |-> parsed_url.invalid ]


(***************************************************************************)
(* WebServer.parse_request_from_buffer                                     *)
(***************************************************************************)
Terminator == CRLF \o CRLF
SUPPORTED_HTTP_METHODS ==
    { <<"G","E","T">>, <<"P","O","S","T">>, <<"P","U","T">>,
      <<"D","E","L","E","T","E">>, <<"H","E","A","D">>,
      <<"O","P","T","I","O","N","S">>, <<"P","A","T","C","H">> }
HTTP11 == <<"H","T","T","P","/","1",".","1">>
ContentLengthName == <<"C","o","n","t","e","n","t","-","L","e","n","g","t","h">>
contentLengthName == lower(ContentLengthName)

\* The three results of the framer share one record shape:
\* kind = "none" is (None, 0), kind = "request" is (components, consumed),
\* kind = "error" is the raised ValueError with its message.
NoText == [some |-> FALSE, text |-> <<>>]
EmptyComponents ==
    [ method |-> <<>>, path |-> <<>>, version |-> <<>>, headers |-> <<>>,
      body |-> <<>>, decoded_body |-> NoText, params |-> <<>> ]
NeedMoreData ==
    [kind |-> "none", components |-> EmptyComponents, consumed |-> 0, error |-> ""]
BadRequest(msg) ==
    [kind |-> "error", components |-> EmptyComponents, consumed |-> 0, error |-> msg]

\* dict.get(name) with a missing key and an empty value both falsy.
HeaderGet(headers, name) == IF name \in DOMAIN headers THEN headers[name] ELSE <<>>

\* The header loop: stops at the first line that is blank after strip(),
\* stores name/value split at the first colon, fails on a line without colon.
RECURSIVE ParseHeaderLines(_, _)
ParseHeaderLines(lines, headers) ==
    IF lines = <<>> THEN [ok |-> TRUE, headers |-> headers]
    ELSE IF strip(Head(lines)) = <<>> THEN [ok |-> TRUE, headers |-> headers]
    ELSE IF Contains(Head(lines), <<":">>)
         THEN LET nv == split1(Head(lines), <<":">>)
              IN  ParseHeaderLines(Tail(lines), (strip(nv[1]) :> strip(nv[2])) @@ headers)
         ELSE [ok |-> FALSE, headers |-> headers]

\* headers.get("Content-Length") or headers.get("content-length")
ContentLengthStr(headers) ==
    IF HeaderGet(headers, ContentLengthName) # <<>>
    THEN HeaderGet(headers, ContentLengthName)
    ELSE HeaderGet(headers, contentLengthName)

\* FrameBody without the wait for the whole body: it frames the request
\* with the body bytes that have arrived so far.
FrameBody_NoWait(buffer, header_end_index, method, url, version, headers) ==
    LET content_length_str == ContentLengthStr(headers)
        content_length     == IF content_length_str # <<>> THEN IntValue(content_length_str) ELSE 0
        body_start_offset  == header_end_index + 4
        body == SubSeq(buffer, body_start_offset + 1,
                       Min(Len(buffer), body_start_offset + content_length))
    IN  IF content_length_str # <<>> /\ (~IntValid(content_length_str) \/ content_length < 0)
        THEN BadRequest("400 Bad Request: Invalid Content-Length header.")
        ELSE [ kind |-> "request",
               components |->
                 [ method  |-> method,
                   path    |-> url.path,
                   version |-> version,
                   headers |-> headers,
                   body    |-> body,
                   decoded_body |-> IF body # <<>> /\ Utf8Ok(body)
                                    THEN [some |-> TRUE, text |-> body] ELSE NoText,
                   params  |-> url.params ],
               consumed |-> body_start_offset + Len(body),
               error |-> "" ]

\* The body part of the framer, once the header block parsed.
FrameBody(buffer, header_end_index, method, url, version, headers) ==
    LET content_length_str == ContentLengthStr(headers)
        content_length     == IF content_length_str # <<>> THEN IntValue(content_length_str) ELSE 0
        body_start_offset  == header_end_index + 4
        body == SubSeq(buffer, body_start_offset + 1, body_start_offset + content_length)
    IN  IF content_length_str # <<>> /\ (~IntValid(content_length_str) \/ content_length < 0)
        THEN BadRequest("400 Bad Request: Invalid Content-Length header.")
        ELSE IF Len(buffer) < body_start_offset + content_length
        THEN NeedMoreData
        ELSE [ kind |-> "request",
               components |->
                 [ method  |-> method,
                   path    |-> url.path,
                   version |-> version,
                   headers |-> headers,
                   body    |-> body,
                   decoded_body |-> IF body # <<>> /\ Utf8Ok(body)
                                    THEN [some |-> TRUE, text |-> body] ELSE NoText,
                   params  |-> url.params ],
               consumed |-> body_start_offset + content_length,
               error |-> "" ]

\* FrameHeader without the check of the version token.
FrameHeader_AnyVersion(buffer, header_end_index) ==
    LET header_string    == Take(buffer, header_end_index + 4)
        request_lines    == split(header_string, CRLF)
        first_line_parts == split(strip(request_lines[1]), <<" ">>)
        method           == upper(first_line_parts[1])
        path_with_query  == first_line_parts[2]
        version          == first_line_parts[3]
        url              == parse_url_path_and_query(path_with_query)
        hdrs             == ParseHeaderLines(Tail(request_lines), <<>>)
    IN  IF ~Utf8Ok(header_string)
        THEN BadRequest("400 Bad Request: 'utf-8' codec can't decode byte")
        ELSE IF request_lines[1] = <<>>
        THEN BadRequest("400 Bad Request: Empty request line")
        ELSE IF Len(first_line_parts) # 3
        THEN BadRequest("400 Bad Request: Malformed request line")
        ELSE IF url.invalid
        THEN BadRequest("400 Bad Request: Invalid IPv6 URL")
        ELSE IF method \notin SUPPORTED_HTTP_METHODS
        THEN BadRequest("400 Bad Request: Unsupported HTTP method")
        ELSE IF ~startswith(path_with_query, <<"/">>)
        THEN BadRequest("400 Bad Request: Malformed path: Path must start with '/'")
        ELSE IF ~hdrs.ok
        THEN BadRequest("400 Bad Request: Malformed header line")
        ELSE FrameBody(buffer, header_end_index, method, url, version, hdrs.headers)

\* The header part of the framer, on the decoded header section.
FrameHeader(buffer, header_end_index) ==
    LET header_string    == Take(buffer, header_end_index + 4)
        request_lines    == split(header_string, CRLF)
        first_line_parts == split(strip(request_lines[1]), <<" ">>)
        method           == upper(first_line_parts[1])
        path_with_query  == first_line_parts[2]
        version          == first_line_parts[3]
        url              == parse_url_path_and_query(path_with_query)
        hdrs             == ParseHeaderLines(Tail(request_lines), <<>>)
    IN  IF ~Utf8Ok(header_string)
        THEN BadRequest("400 Bad Request: 'utf-8' codec can't decode byte")
        ELSE IF request_lines[1] = <<>>
        THEN BadRequest("400 Bad Request: Empty request line")
        ELSE IF Len(first_line_parts) # 3
        THEN BadRequest("400 Bad Request: Malformed request line")
        ELSE IF url.invalid
        THEN BadRequest("400 Bad Request: Invalid IPv6 URL")
        ELSE IF method \notin SUPPORTED_HTTP_METHODS
        THEN BadRequest("400 Bad Request: Unsupported HTTP method")
        ELSE IF ~startswith(path_with_query, <<"/">>)
        THEN BadRequest("400 Bad Request: Malformed path: Path must start with '/'")
        ELSE IF version # HTTP11
        THEN BadRequest("400 Bad Request: Invalid HTTP version")
        ELSE IF ~hdrs.ok
        THEN BadRequest("400 Bad Request: Malformed header line")
        ELSE FrameBody(buffer, header_end_index, method, url, version, hdrs.headers)

parse_request_from_buffer(buffer) ==
    LET header_end_index == find(buffer, Terminator)
    IN  IF header_end_index = -1 THEN NeedMoreData
        ELSE FrameHeader(buffer, header_end_index)


(***************************************************************************)
(* Router (src/router.py).  routes maps METHOD -> path -> the pair         *)
(* (handler, handler_args).  A handler is a record: the function's name,   *)
(* whether protected_route marked the function, and whether the callable   *)
(* is a functools.partial around it.                                       *)
(***************************************************************************)
NoArgs == "None"
EmptyArgs == "{}"
NoHandler == [name |-> "None", protected |-> FALSE, bound |-> FALSE]
NoRoute == [handler |-> NoHandler, handler_args |-> NoArgs]

\* add_route that keeps an entry already there (dict.setdefault).
add_route_KeepFirst(rt, method, path, handler, handler_args) ==
    LET m     == upper(method)
        old   == IF m \in DOMAIN rt THEN rt[m] ELSE <<>>
        entry == [handler |-> handler,
                  handler_args |-> IF handler_args # NoArgs THEN handler_args ELSE EmptyArgs]
    IN  (m :> (old @@ (path :> entry))) @@ rt

add_route(rt, method, path, handler, handler_args) ==
    LET m     == upper(method)
        old   == IF m \in DOMAIN rt THEN rt[m] ELSE <<>>
        entry == [handler |-> handler,
                  handler_args |-> IF handler_args # NoArgs THEN handler_args ELSE EmptyArgs]
    IN  (m :> ((path :> entry) @@ old)) @@ rt

\* resolve_route without method.upper().
resolve_route_AsGiven(rt, method, path) ==
    IF method \in DOMAIN rt /\ path \in DOMAIN rt[method] THEN rt[method][path] ELSE NoRoute

\* Router.resolve_route: NoRoute stands for None.
resolve_route(rt, method, path) ==
    LET m == upper(method)
    IN  IF m \in DOMAIN rt /\ path \in DOMAIN rt[m] THEN rt[m][path] ELSE NoRoute

\* Router.get_route_info, the lookup handle_client performs.  The Router
\* at hand still has it under its former name resolve_route; this is the
\* documented lookup: exact match on the upper-cased method and on the
\* path, None (NoHandler here) when there is no entry.
get_route_info(rt, method, path) ==
    LET m == upper(method)
    IN  IF m \in DOMAIN rt /\ path \in DOMAIN rt[m] THEN rt[m][path].handler ELSE NoHandler

(***************************************************************************)
(* Middleware (auth_middleware, logger_middleware) and the fold of         *)
(* handle_client.  A callable is the route's handler under a stack of      *)
(* wrapper closures, outermost first.                                      *)
(***************************************************************************)
Middlewares == {"auth", "logger"}

\* getattr(next_handler, "_is_protected", False): only the handler function
\* itself carries the marker; a wrapper closure and a functools.partial do
\* not.
IsProtected(w) == w.layers = <<>> /\ w.base.protected /\ ~w.base.bound

auth_middleware(next_handler) ==
    IF ~IsProtected(next_handler) THEN next_handler
    ELSE [next_handler EXCEPT !.layers = <<"auth">> \o @]

logger_middleware(handler_function) ==
    [handler_function EXCEPT !.layers = <<"logger">> \o @]

ApplyMiddleware(m, w) == IF m = "auth" THEN auth_middleware(w) ELSE logger_middleware(w)

\* The fold without reversed(): for middleware in self.middleware_functions.
RECURSIVE WrapHandler_Forward(_, _)
WrapHandler_Forward(mws, w) ==
    IF mws = <<>> THEN w
    ELSE WrapHandler_Forward(Tail(mws), ApplyMiddleware(Head(mws), w))

\* for middleware in reversed(self.middleware_functions):
\*     wrapper_handler = middleware(wrapper_handler)
RECURSIVE WrapHandler(_, _)
WrapHandler(mws, w) ==
    IF mws = <<>> THEN w
    ELSE WrapHandler(Take(mws, Len(mws) - 1), ApplyMiddleware(mws[Len(mws)], w))

AuthorizationName == <<"A","u","t","h","o","r","i","z","a","t","i","o","n">>
Bearer == <<"b","e","a","r","e","r">>
JwtOutcomes == {"ok", "expired", "invalid", "error"}

Response(status, content) == [status |-> status, content |-> <<content>>]

\* auth_middleware.wrapper up to the call of next_handler: the response it
\* returns without calling onward, or status 0 when it calls next_handler.
AuthCheck(headers, jwt) ==
    LET auth_header == HeaderGet(headers, AuthorizationName)
        parts       == split(auth_header, <<" ">>)
    IN  IF auth_header = <<>>
        THEN Response(401, "401 Unauthorized: Authorization header missing.")
        ELSE IF Len(parts) # 2 \/ lower(parts[1]) # Bearer
        THEN Response(401, "401 Unauthorized: Malformed Authorization header.")
        ELSE IF jwt = "expired"
        THEN Response(401, "401 Unauthorized: Token has expired.")
        ELSE IF jwt = "invalid"
        THEN Response(401, "401 Unauthorized: Invalid token.")
        ELSE IF jwt = "error"
        THEN Response(500, "500 Internal Server Error: Authentication error.")
        ELSE Response(0, "")

HasAuthLayer(w) == \E i \in 1..Len(w.layers) : w.layers[i] = "auth"

\* What the route's handler does when called: it returns a response triple
\* or raises.
HandlerStatuses == {200, 201, 404}
HandlerOutcomes ==
    [kind : {"return"}, status : HandlerStatuses, exc : {""}] \cup
    [kind : {"raise"}, status : {0}, exc : {"TypeError", "Exception"}]

\* The outcome of wrapper_handler(request) once the handler finished with
\* outcome o: logger_middleware re-raises, auth_middleware's except
\* Exception turns a raise of next_handler into a returned 500.
WrappedOutcome(w, o) ==
    IF o.kind = "raise" /\ HasAuthLayer(w)
    THEN [kind |-> "return", status |-> 500, exc |-> ""]
    ELSE o


(***************************************************************************)
(* The byte streams clients send.                                          *)
(***************************************************************************)
GET == <<"G","E","T">>
POST == <<"P","O","S","T">>
DELETE == <<"D","E","L","E","T","E">>
HTTP10 == <<"H","T","T","P","/","1",".","0">>
Root == <<"/">>
SP == <<" ">>

RequestLine(method, target, version) == method \o SP \o target \o SP \o version \o CRLF
HeaderLine(name, value) == name \o <<":", " ">> \o value \o CRLF
Filler(n) == [i \in 1..n |-> "z"]

GetRoot == RequestLine(GET, Root, HTTP11) \o CRLF
PostBody ==
    RequestLine(POST, Root, HTTP11) \o HeaderLine(ContentLengthName, <<"2">>) \o CRLF
      \o <<"a", "b">>
LowerGet ==
    RequestLine(lower(GET), <<"/", "?", "q", "=", "1">>, HTTP11)
      \o HeaderLine(contentLengthName, <<"0">>) \o CRLF
BinaryPost ==
    RequestLine(POST, Root, HTTP11) \o HeaderLine(contentLengthName, <<"1">>) \o CRLF
      \o <<BadByte>>
DeleteMissing == RequestLine(DELETE, <<"/", "n">>, HTTP11) \o CRLF
GetProtected == RequestLine(GET, <<"/", "p">>, HTTP11) \o CRLF
GetProtectedBearer ==
    RequestLine(GET, <<"/", "p">>, HTTP11)
      \o HeaderLine(AuthorizationName, <<"B","e","a","r","e","r"," ","t">>) \o CRLF
GetBound == RequestLine(GET, <<"/", "q">>, HTTP11) \o CRLF
GetProtectedBasic ==
    RequestLine(GET, <<"/", "p">>, HTTP11)
      \o HeaderLine(AuthorizationName, <<"B","a","s","i","c"," ","t">>) \o CRLF

\* Framing errors.
TwoTokenLine == GET \o SP \o Root \o CRLF \o CRLF
HeaderNoColon == RequestLine(GET, Root, HTTP11) \o <<"H","o","s","t">> \o CRLF \o CRLF
BadMethod == RequestLine(<<"F","O","O">>, Root, HTTP11) \o CRLF
OldVersion == RequestLine(GET, Root, HTTP10) \o CRLF
NoSlashTarget == RequestLine(GET, <<"x">>, HTTP11) \o CRLF
NegativeLength ==
    RequestLine(POST, Root, HTTP11) \o HeaderLine(ContentLengthName, <<"-", "1">>) \o CRLF
TextLength ==
    RequestLine(POST, Root, HTTP11) \o HeaderLine(ContentLengthName, <<"x">>) \o CRLF
BadUtf8Header == RequestLine(GET, Root, HTTP11) \o <<"H", ":", BadByte>> \o CRLF \o CRLF
EmptyFirstLine == CRLF \o CRLF

\* More bytes than the buffer cap without a complete request.
HugeHeader ==
    RequestLine(POST, Root, HTTP11) \o HeaderLine(ContentLengthName, <<"9", "9">>) \o CRLF
HugeBody == HugeHeader \o Filler(MAX_BUFFER_SIZE - 30)
EndlessHeader == GET \o SP \o <<"/">> \o Filler(MAX_BUFFER_SIZE + 2)

ValidRequests == {GetRoot, PostBody, LowerGet, BinaryPost, GetProtectedBearer}
UnroutedRequests == {DeleteMissing}
MalformedRequests ==
    { TwoTokenLine, HeaderNoColon, BadMethod, OldVersion, NoSlashTarget,
      NegativeLength, TextLength, BadUtf8Header, EmptyFirstLine }

Streams ==
    ValidRequests
      \cup { PostBody \o GetRoot, GetRoot \o DeleteMissing \o GetRoot,
             GetProtected \o GetRoot, GetProtectedBasic, GetProtectedBearer \o GetRoot,
             GetProtectedBearer \o GetProtected,
             GetBound,
             DeleteMissing \o GetRoot, HugeBody, EndlessHeader }
      \cup { m \o GetRoot : m \in MalformedRequests }

\* Requests whose lines differ from the usual layout: padding around the
\* request line, more or fewer separators, Content-Length spelled in other
\* casings, a line of whitespace inside the header block, a header line
\* that starts with the colon, a name given twice, a value with a colon.
TAB == <<"\t">>
XName == <<"X">>
UpperContentLength == upper(ContentLengthName)
MixedContentLength == <<"C","o","n","t","e","n","t","-","l","e","n","g","t","h">>
LeadingSpaceLine == SP \o GetRoot
TrailingSpaceLine == GET \o SP \o Root \o SP \o HTTP11 \o SP \o CRLF \o CRLF
TabbedLine == TAB \o GetRoot
DoubleSpaceLine == GET \o SP \o SP \o Root \o SP \o HTTP11 \o CRLF \o CRLF
FourTokenLine == GET \o SP \o Root \o SP \o HTTP11 \o SP \o XName \o CRLF \o CRLF
LowerVersion == RequestLine(GET, Root, lower(HTTP11)) \o CRLF
LowerPost ==
    RequestLine(POST, Root, HTTP11) \o HeaderLine(contentLengthName, <<"2">>) \o CRLF
      \o <<"a", "b">>
UpperPost ==
    RequestLine(POST, Root, HTTP11) \o HeaderLine(UpperContentLength, <<"2">>) \o CRLF
      \o <<"a", "b">>
MixedPost ==
    RequestLine(POST, Root, HTTP11) \o HeaderLine(MixedContentLength, <<"2">>) \o CRLF
      \o <<"a", "b">>
UpperNegative ==
    RequestLine(POST, Root, HTTP11) \o HeaderLine(UpperContentLength, <<"-", "1">>) \o CRLF
\* One POST whose body is the text of a GET, its length declared in upper case.
UpperSmuggle ==
    RequestLine(POST, Root, HTTP11) \o HeaderLine(UpperContentLength, <<"1", "8">>) \o CRLF
      \o GetRoot
BlankLineThenHeader ==
    RequestLine(GET, Root, HTTP11) \o SP \o CRLF \o HeaderLine(XName, <<"1">>) \o CRLF
BlankLineThenJunk ==
    RequestLine(GET, Root, HTTP11) \o TAB \o CRLF \o <<"H","o","s","t">> \o CRLF \o CRLF
EmptyNameHeader == RequestLine(GET, Root, HTTP11) \o HeaderLine(<<>>, <<"v">>) \o CRLF
SpaceNameHeader ==
    RequestLine(GET, Root, HTTP11) \o SP \o HeaderLine(<<>>, <<"v">>) \o CRLF
RepeatedHeader ==
    RequestLine(GET, Root, HTTP11) \o HeaderLine(XName, <<"1">>)
      \o HeaderLine(XName, <<"2">>) \o CRLF
PaddedHeader ==
    RequestLine(GET, Root, HTTP11) \o SP \o XName \o SP \o <<":">> \o <<"a", ":", "b">>
      \o SP \o CRLF \o CRLF

\* Targets that start with two slashes: urlsplit reads a network location.
NetlocTarget == RequestLine(GET, <<"/", "/", "h">>, HTTP11) \o CRLF
NetlocQueryTarget ==
    RequestLine(GET, <<"/", "/", "h", "?", "x", "=", "1">>, HTTP11) \o CRLF
NetlocPathTarget == RequestLine(GET, <<"/", "/", "h", "/", "p">>, HTTP11) \o CRLF
FragmentTarget == RequestLine(GET, <<"/", "#", "f">>, HTTP11) \o CRLF
EncodedSlashTarget == RequestLine(GET, <<"/", "%", "2", "F", "p">>, HTTP11) \o CRLF

LineStreams ==
    { GetRoot, PostBody, LowerGet, GetProtected, DeleteMissing,
      NetlocTarget \o GetRoot, NetlocQueryTarget, NetlocPathTarget, FragmentTarget,
      EncodedSlashTarget,
      LeadingSpaceLine, TrailingSpaceLine, TabbedLine,
      LowerPost, UpperPost \o GetRoot, MixedPost, UpperSmuggle,
      BlankLineThenHeader, BlankLineThenJunk, EmptyNameHeader, SpaceNameHeader,
      RepeatedHeader, PaddedHeader }
      \cup { m \o GetRoot :
               m \in { TwoTokenLine, DoubleSpaceLine, FourTokenLine, BadMethod, OldVersion,
                       LowerVersion, HeaderNoColon, NegativeLength, UpperNegative,
                       EmptyFirstLine } }

\* config/routes.json as load_routes reads it: the handler functions of
\* its registry and the entries, one of them with handler_args.
PublicHandler == [name |-> "serve_static_file", protected |-> FALSE, bound |-> FALSE]
PostHandler == [name |-> "login_user", protected |-> FALSE, bound |-> FALSE]
ProtectedHandler == [name |-> "get_user_profile", protected |-> TRUE, bound |-> FALSE]
DataHandler == [name |-> "get_data", protected |-> TRUE, bound |-> FALSE]
PostDataHandler == [name |-> "post_data", protected |-> TRUE, bound |-> FALSE]
RegisterHandler == [name |-> "register_user", protected |-> FALSE, bound |-> FALSE]

\* handler_map once the handler modules are imported.
handler_map ==
    [name \in {"serve_static_file", "get_data", "post_data", "register_user", "login_user",
               "get_user_profile"} |->
        CASE name = "serve_static_file" -> PublicHandler
          [] name = "get_data" -> DataHandler
          [] name = "post_data" -> PostDataHandler
          [] name = "register_user" -> RegisterHandler
          [] name = "login_user" -> PostHandler
          [] name = "get_user_profile" -> ProtectedHandler]

\* An element of the "routes" list.  dict tells a JSON object from any other
\* JSON value; an absent or empty method or path is <<>>, an absent or
\* empty handler name is "", absent handler_args is NoArgs.
RouteEntry(method, path, handler, handler_args) ==
    [dict |-> TRUE, method |-> method, path |-> path, handler |-> handler,
     handler_args |-> handler_args]
NotAnObject == [dict |-> FALSE, method |-> <<>>, path |-> <<>>, handler |-> "",
                handler_args |-> NoArgs]

\* The configuration file: file is "missing", "invalid" (not JSON) or "ok";
\* routes is "absent" (no "routes" key), "other" (not a list) or "list".
ConfigFile(file, routesKey, entries) == [file |-> file, routes |-> routesKey, entries |-> entries]

RouteConfig ==
    ConfigFile("ok", "list",
      << RouteEntry(GET, Root, "serve_static_file", NoArgs),
         RouteEntry(lower(POST), Root, "login_user", NoArgs),
         RouteEntry(GET, <<"/", "p">>, "get_user_profile", NoArgs),
         RouteEntry(GET, <<"/", "q">>, "get_data", "{limit: 5}") >>)

\* functools.partial(handler, ...) when the entry has handler_args.
bind_handler(handler, handler_args) ==
    IF handler_args # NoArgs THEN [handler EXCEPT !.bound = TRUE] ELSE handler

\* The add_route call of load_routes for a well-formed entry, as regLog
\* records it.
LoadCall(entry) ==
    [method |-> entry.method, path |-> entry.path,
     handler |-> bind_handler(handler_map[entry.handler], entry.handler_args),
     handler_args |-> NoArgs]

\* The loop of load_routes over routes_list.  route_entry.get on an element
\* that is no JSON object raises AttributeError, which nothing catches.
RECURSIVE load_entries(_, _, _)
load_entries(rt, log, entries) ==
    IF entries = <<>> THEN [routes |-> rt, log |-> log, raised |-> FALSE]
    ELSE LET route_entry == Head(entries)
         IN  IF ~route_entry.dict
             THEN [routes |-> rt, log |-> log, raised |-> TRUE]
             ELSE IF route_entry.method = <<>> \/ route_entry.path = <<>>
                       \/ route_entry.handler = ""
             THEN load_entries(rt, log, Tail(entries))
             ELSE IF route_entry.handler \notin DOMAIN handler_map
             THEN load_entries(rt, log, Tail(entries))
             ELSE load_entries(add_route(rt, route_entry.method, route_entry.path,
                                         LoadCall(route_entry).handler, NoArgs),
                               Append(log, LoadCall(route_entry)),
                               Tail(entries))

\* load_routes that starts from an empty table whatever the file holds.
load_routes_Reset(rt, config) ==
    IF config.file # "ok" \/ config.routes # "list"
    THEN [routes |-> <<>>, log |-> <<>>, raised |-> FALSE]
    ELSE load_entries(<<>>, <<>>, config.entries)

\* load_routes: the new route table, the add_route calls made, and whether
\* an exception left the function.
load_routes(rt, config) ==
    IF config.file # "ok" THEN [routes |-> rt, log |-> <<>>, raised |-> FALSE]
    ELSE IF config.routes = "absent" THEN load_entries(rt, <<>>, <<>>)
    ELSE IF config.routes # "list" THEN [routes |-> rt, log |-> <<>>, raised |-> FALSE]
    ELSE load_entries(rt, <<>>, config.entries)


(***************************************************************************)
(* State.                                                                  *)
(***************************************************************************)
MaxMiddleware == 2

\* The connections, numbered in the order accept() returns them.  Connection
\* threads share only the route table and the middleware list, both read-only
\* once start() runs, so the specifications about one connection accept the
\* first only.
Conns == {1, 2}
SoleConn == {1}
\* client_address of connection c.
Address(c) == 50000 + c

VARIABLES
    phase,                \* "setup" until WebServer.start, then "serving"
    routes,               \* Router.routes
    middleware_functions, \* WebServer.middleware_functions
    pc,                   \* where each connection's handle_client thread stands
    client_buffer,        \* handle_client's client_buffer
    input,                \* all the bytes the client means to send
    stream,               \* the part of input not yet delivered
    peer,                 \* "open", or "reset" once the peer has reset the connection
    request,              \* the Request being dispatched
    wrapper_handler,      \* handle_client's wrapper_handler
    pending,              \* the send_response call about to run and where it returns to
    framed,               \* the Requests built from the buffer, in order
    invoked,              \* the Requests the route handlers were called with
    sent,                 \* the responses sendall wrote
    closeCalls,           \* number of client_sock.close() calls
    trace,                \* per-connection log of frame/enter/call/return/send/close
    added,                \* the add_middleware calls made, in call order
    regLog,               \* the Router.add_route calls made, in call order
    resolved,             \* the last Router.resolve_route call and what it returned
    written,              \* the arguments of the last send_response call made on its own
    wire,                 \* the bytes that call handed to sendall
    url,                  \* the last parse_url_path_and_query call made on its own
    loaded,               \* the load_routes call made on its own: file, table before, outcome
    accepted,             \* the (client_socket, client_address) pairs accept() returned
    threads,              \* the threads start() started: target and args
    listener              \* server_socket: close() calls and what ended the accept loop

vars == << phase, routes, middleware_functions, pc, client_buffer, input, stream, peer, request,
           wrapper_handler, pending, framed, invoked, sent, closeCalls, trace,
           added, regLog, resolved, written, wire, url, loaded,
           accepted, threads, listener >>
unitVars == << resolved, written, wire, url, loaded >>
acceptorVars == << accepted, threads, listener >>
serverVars == << phase, routes, middleware_functions, added, regLog, unitVars, acceptorVars >>

\* Request.__init__: the parsed components and user = None.
Request(components) == components @@ [user |-> "None"]
NoRequest == Request(EmptyComponents)
NoWrapper == [layers |-> <<>>, base |-> NoHandler]
NoPending == [status |-> 0, content |-> <<>>, req |-> 0, ctx |-> "", after |-> ""]

NoLookup == [method |-> <<>>, path |-> <<>>, result |-> NoRoute]
NoResponse == [status_code |-> 0, content_type |-> <<>>, content |-> <<>>]
NoLoad == [done |-> FALSE, config |-> ConfigFile("", "", <<>>), before |-> <<>>,
           raised |-> FALSE]
NoUrl == [fields |-> <<>>, target |-> <<>>, path |-> <<>>, params |-> <<>>]

Event(ev, req, status, name) == [ev |-> ev, req |-> req, status |-> status, name |-> name]

Init ==
    /\ phase = "setup"
    /\ routes = <<>>
    /\ middleware_functions = <<>>
    /\ pc = [c \in Conns |-> "unaccepted"]
    /\ client_buffer = [c \in Conns |-> <<>>]
    /\ input = [c \in Conns |-> <<>>]
    /\ stream = [c \in Conns |-> <<>>]
    /\ peer = [c \in Conns |-> "open"]
    /\ request = [c \in Conns |-> NoRequest]
    /\ wrapper_handler = [c \in Conns |-> NoWrapper]
    /\ pending = [c \in Conns |-> NoPending]
    /\ framed = [c \in Conns |-> <<>>]
    /\ invoked = [c \in Conns |-> <<>>]
    /\ sent = [c \in Conns |-> <<>>]
    /\ closeCalls = [c \in Conns |-> 0]
    /\ trace = [c \in Conns |-> <<>>]
    /\ added = <<>>
    /\ regLog = <<>>
    /\ resolved = NoLookup
    /\ written = NoResponse
    /\ wire = <<>>
    /\ url = NoUrl
    /\ loaded = NoLoad
    /\ accepted = <<>>
    /\ threads = <<>>
    /\ listener = [closes |-> 0, ended |-> ""]

connVars == << pc, client_buffer, input, stream, peer, request, wrapper_handler, pending,
               framed, invoked, sent, closeCalls, trace >>

(***************************************************************************)
(* Startup (server.py main): middleware, routes, then start().             *)
(***************************************************************************)
add_middleware(m) ==
    /\ phase = "setup"
    /\ Len(middleware_functions) < MaxMiddleware
    /\ middleware_functions' = Append(middleware_functions, m)
    /\ added' = Append(added, m)
    /\ UNCHANGED << phase, routes, regLog, unitVars, acceptorVars, connVars >>

LoadRoutes ==
    /\ phase = "setup"
    /\ routes = <<>>
    /\ routes' = load_routes(routes, RouteConfig).routes
    /\ regLog' = regLog \o load_routes(routes, RouteConfig).log
    /\ UNCHANGED << phase, middleware_functions, added, unitVars, acceptorVars, connVars >>

Start ==
    /\ phase = "setup"
    /\ routes # <<>>
    /\ phase' = "serving"
    /\ UNCHANGED << routes, middleware_functions, added, regLog, unitVars, acceptorVars, connVars >>

\* server_socket.accept() and the start of the connection's thread:
\* handle_client begins with an empty buffer.
Accept(c, s) ==
    /\ phase = "serving"
    /\ pc[c] = "unaccepted"
    /\ c = Len(accepted) + 1
    /\ accepted' = Append(accepted, [sock |-> c, addr |-> Address(c)])
    /\ threads' = Append(threads, [target |-> "handle_client", sock |-> c, addr |-> Address(c)])
    /\ pc' = [pc EXCEPT ![c] = "parse"]
    /\ input' = [input EXCEPT ![c] = s]
    /\ stream' = [stream EXCEPT ![c] = s]
    /\ client_buffer' = [client_buffer EXCEPT ![c] = <<>>]
    /\ UNCHANGED << phase, routes, middleware_functions, added, regLog, unitVars, listener,
                    peer, request, wrapper_handler, pending, framed, invoked,
                    sent, closeCalls, trace >>

\* The accept loop ends without the finally clause closing the socket.
AcceptorEnds_NoClose(cause) ==
    /\ phase = "serving"
    /\ phase' = "stopped"
    /\ listener' = [listener EXCEPT !.ended = cause]
    /\ UNCHANGED << routes, middleware_functions, added, regLog, unitVars, accepted, threads,
                    connVars >>

\* accept() raises: KeyboardInterrupt is caught and start() returns, any
\* other exception leaves start(); either way finally closes server_socket.
AcceptorEnds(cause) ==
    /\ phase = "serving"
    /\ phase' = "stopped"
    /\ listener' = [closes |-> listener.closes + 1, ended |-> cause]
    /\ UNCHANGED << routes, middleware_functions, added, regLog, unitVars, accepted, threads,
                    connVars >>


(***************************************************************************)
(* WebServer.handle_client, one action per step of the loop.               *)
(***************************************************************************)
Running(c) == pc[c] \notin {"unaccepted", "done", "crashed"}

\* A send_response call: its arguments, the request it answers, where it is
\* made ("inner" = in the try around the handler call, "try" = elsewhere in
\* the outer try body, "except" = in an outer except clause) and what
\* follows it ("loop" = continue, "finally" = break or end of the clause).
SendCall(status, content, req, ctx, after) ==
    [status |-> status, content |-> <<content>>, req |-> req, ctx |-> ctx, after |-> after]

\* ParseNeedMore with a framer that drops the header block it has scanned
\* when the body is not there yet.
ParseNeedMore_ConsumeHeader(c) ==
    LET header_end_index == find(client_buffer[c], Terminator)
    IN  /\ pc[c] = "parse"
        /\ parse_request_from_buffer(client_buffer[c]).kind = "none"
        /\ pc' = [pc EXCEPT ![c] = "recv"]
        /\ client_buffer' = [client_buffer EXCEPT ![c] =
              IF header_end_index = -1 THEN @ ELSE Drop(@, header_end_index + 4)]
        /\ trace' = [trace EXCEPT ![c] =
              IF client_buffer[c] # <<>> /\ (@ = <<>> \/ @[Len(@)].ev # "partial")
              THEN Append(@, Event("partial", 0, 0, "")) ELSE @]
        /\ UNCHANGED << serverVars, input, stream, peer, request, wrapper_handler,
                        pending, framed, invoked, sent, closeCalls >>

\* parse_request_from_buffer returned (None, 0): go and read from the socket.
\* The trace notes once that the framer was tried on a partial request.
ParseNeedMore(c) ==
    /\ pc[c] = "parse"
    /\ parse_request_from_buffer(client_buffer[c]).kind = "none"
    /\ pc' = [pc EXCEPT ![c] = "recv"]
    /\ trace' = [trace EXCEPT ![c] =
          IF client_buffer[c] # <<>> /\ (@ = <<>> \/ @[Len(@)].ev # "partial")
          THEN Append(@, Event("partial", 0, 0, "")) ELSE @]
    /\ UNCHANGED << serverVars, client_buffer, input, stream, peer, request, wrapper_handler,
                    pending, framed, invoked, sent, closeCalls >>

\* ParseError without the except ValueError clause: the error reaches
\* except Exception, which sends 500.
ParseError_As500(c) ==
    LET r == parse_request_from_buffer(client_buffer[c])
    IN  /\ pc[c] = "parse"
        /\ r.kind = "error"
        /\ pending' = [pending EXCEPT ![c] = SendCall(500, "500 Internal Server Error.", 0, "except", "finally")]
        /\ trace' = [trace EXCEPT ![c] = Append(@, Event("badrequest", 0, 0, ""))]
        /\ pc' = [pc EXCEPT ![c] = "send"]
        /\ UNCHANGED << serverVars, client_buffer, input, stream, peer, request, wrapper_handler,
                        framed, invoked, sent, closeCalls >>

\* parse_request_from_buffer raised ValueError: except ValueError sends 400.
ParseError(c) ==
    LET r == parse_request_from_buffer(client_buffer[c])
    IN  /\ pc[c] = "parse"
        /\ r.kind = "error"
        /\ pending' = [pending EXCEPT ![c] = SendCall(400, r.error, 0, "except", "finally")]
        /\ trace' = [trace EXCEPT ![c] = Append(@, Event("badrequest", 0, 0, ""))]
        /\ pc' = [pc EXCEPT ![c] = "send"]
        /\ UNCHANGED << serverVars, client_buffer, input, stream, peer, request, wrapper_handler,
                        framed, invoked, sent, closeCalls >>

\* FrameRequest that empties the buffer instead of sliding it by the
\* consumed count.
FrameRequest_ClearBuffer(c) ==
    LET r     == parse_request_from_buffer(client_buffer[c])
        req   == Request(r.components)
        k     == Len(framed[c]) + 1
        final_handler == get_route_info(routes, req.method, req.path)
    IN  /\ pc[c] = "parse"
        /\ r.kind = "request"
        /\ client_buffer' = [client_buffer EXCEPT ![c] = <<>>]
        /\ request' = [request EXCEPT ![c] = req]
        /\ framed' = [framed EXCEPT ![c] = Append(@, req)]
        /\ trace' = [trace EXCEPT ![c] = Append(@, Event("frame", k, 0, ""))]
        /\ IF final_handler # NoHandler
           THEN /\ wrapper_handler' = [wrapper_handler EXCEPT ![c] =
                       WrapHandler(middleware_functions, [layers |-> <<>>, base |-> final_handler])]
                /\ pc' = [pc EXCEPT ![c] = "dispatch"]
                /\ UNCHANGED pending
           ELSE /\ pending' = [pending EXCEPT ![c] =
                       SendCall(404, "404 Not Found: Path not found.", k, "try", "finally")]
                /\ pc' = [pc EXCEPT ![c] = "send"]
                /\ UNCHANGED wrapper_handler
        /\ UNCHANGED << serverVars, input, stream, peer, invoked, sent, closeCalls >>

\* FrameRequest whose route miss sends 404 and continues the loop.
FrameRequest_MissContinue(c) ==
    LET r     == parse_request_from_buffer(client_buffer[c])
        req   == Request(r.components)
        k     == Len(framed[c]) + 1
        final_handler == get_route_info(routes, req.method, req.path)
    IN  /\ pc[c] = "parse"
        /\ r.kind = "request"
        /\ client_buffer' = [client_buffer EXCEPT ![c] = Drop(@, r.consumed)]
        /\ request' = [request EXCEPT ![c] = req]
        /\ framed' = [framed EXCEPT ![c] = Append(@, req)]
        /\ trace' = [trace EXCEPT ![c] = Append(@, Event("frame", k, 0, ""))]
        /\ IF final_handler # NoHandler
           THEN /\ wrapper_handler' = [wrapper_handler EXCEPT ![c] =
                       WrapHandler(middleware_functions, [layers |-> <<>>, base |-> final_handler])]
                /\ pc' = [pc EXCEPT ![c] = "dispatch"]
                /\ UNCHANGED pending
           ELSE /\ pending' = [pending EXCEPT ![c] =
                       SendCall(404, "404 Not Found: Path not found.", k, "try", "loop")]
                /\ pc' = [pc EXCEPT ![c] = "send"]
                /\ UNCHANGED wrapper_handler
        /\ UNCHANGED << serverVars, input, stream, peer, invoked, sent, closeCalls >>

\* FrameRequest that reverses self.middleware_functions in place before the
\* fold and then iterates over it forwards.
FrameRequest_ReverseInPlace(c) ==
    LET r     == parse_request_from_buffer(client_buffer[c])
        req   == Request(r.components)
        k     == Len(framed[c]) + 1
        final_handler == get_route_info(routes, req.method, req.path)
        flipped == [i \in 1..Len(middleware_functions) |->
                       middleware_functions[Len(middleware_functions) + 1 - i]]
    IN  /\ pc[c] = "parse"
        /\ r.kind = "request"
        /\ client_buffer' = [client_buffer EXCEPT ![c] = Drop(@, r.consumed)]
        /\ request' = [request EXCEPT ![c] = req]
        /\ framed' = [framed EXCEPT ![c] = Append(@, req)]
        /\ trace' = [trace EXCEPT ![c] = Append(@, Event("frame", k, 0, ""))]
        /\ IF final_handler # NoHandler
           THEN /\ wrapper_handler' = [wrapper_handler EXCEPT ![c] =
                       WrapHandler_Forward(flipped, [layers |-> <<>>, base |-> final_handler])]
                /\ middleware_functions' = flipped
                /\ pc' = [pc EXCEPT ![c] = "dispatch"]
                /\ UNCHANGED pending
           ELSE /\ pending' = [pending EXCEPT ![c] =
                       SendCall(404, "404 Not Found: Path not found.", k, "try", "finally")]
                /\ pc' = [pc EXCEPT ![c] = "send"]
                /\ UNCHANGED << wrapper_handler, middleware_functions >>
        /\ UNCHANGED << phase, routes, added, regLog, unitVars, acceptorVars,
                        input, stream, peer, invoked, sent, closeCalls >>

\* FrameRequest that builds the Request with the user of the Request the
\* connection handled before it.
FrameRequest_KeepUser(c) ==
    LET r     == parse_request_from_buffer(client_buffer[c])
        req   == [Request(r.components) EXCEPT !.user = request[c].user]
        k     == Len(framed[c]) + 1
        final_handler == get_route_info(routes, req.method, req.path)
    IN  /\ pc[c] = "parse"
        /\ r.kind = "request"
        /\ client_buffer' = [client_buffer EXCEPT ![c] = Drop(@, r.consumed)]
        /\ request' = [request EXCEPT ![c] = req]
        /\ framed' = [framed EXCEPT ![c] = Append(@, req)]
        /\ trace' = [trace EXCEPT ![c] = Append(@, Event("frame", k, 0, ""))]
        /\ IF final_handler # NoHandler
           THEN /\ wrapper_handler' = [wrapper_handler EXCEPT ![c] =
                       WrapHandler(middleware_functions, [layers |-> <<>>, base |-> final_handler])]
                /\ pc' = [pc EXCEPT ![c] = "dispatch"]
                /\ UNCHANGED pending
           ELSE /\ pending' = [pending EXCEPT ![c] =
                       SendCall(404, "404 Not Found: Path not found.", k, "try", "finally")]
                /\ pc' = [pc EXCEPT ![c] = "send"]
                /\ UNCHANGED wrapper_handler
        /\ UNCHANGED << serverVars, input, stream, peer, invoked, sent, closeCalls >>

\* FrameRequest without client_buffer = client_buffer[consumed_bytes:].
FrameRequest_NoSlide(c) ==
    LET r     == parse_request_from_buffer(client_buffer[c])
        req   == Request(r.components)
        k     == Len(framed[c]) + 1
        final_handler == get_route_info(routes, req.method, req.path)
    IN  /\ pc[c] = "parse"
        /\ r.kind = "request"
        /\ request' = [request EXCEPT ![c] = req]
        /\ framed' = [framed EXCEPT ![c] = Append(@, req)]
        /\ trace' = [trace EXCEPT ![c] = Append(@, Event("frame", k, 0, ""))]
        /\ IF final_handler # NoHandler
           THEN /\ wrapper_handler' = [wrapper_handler EXCEPT ![c] =
                       WrapHandler(middleware_functions, [layers |-> <<>>, base |-> final_handler])]
                /\ pc' = [pc EXCEPT ![c] = "dispatch"]
                /\ UNCHANGED pending
           ELSE /\ pending' = [pending EXCEPT ![c] =
                       SendCall(404, "404 Not Found: Path not found.", k, "try", "finally")]
                /\ pc' = [pc EXCEPT ![c] = "send"]
                /\ UNCHANGED wrapper_handler
        /\ UNCHANGED << serverVars, client_buffer, input, stream, peer, invoked, sent, closeCalls >>

\* A request was framed: slide the buffer, build the Request, look up the
\* route; on a hit fold the middleware around the handler, on a miss send
\* 404 and break.
FrameRequest(c) ==
    LET r     == parse_request_from_buffer(client_buffer[c])
        req   == Request(r.components)
        k     == Len(framed[c]) + 1
        final_handler == get_route_info(routes, req.method, req.path)
    IN  /\ pc[c] = "parse"
        /\ r.kind = "request"
        /\ client_buffer' = [client_buffer EXCEPT ![c] = Drop(@, r.consumed)]
        /\ request' = [request EXCEPT ![c] = req]
        /\ framed' = [framed EXCEPT ![c] = Append(@, req)]
        /\ trace' = [trace EXCEPT ![c] = Append(@, Event("frame", k, 0, ""))]
        /\ IF final_handler # NoHandler
           THEN /\ wrapper_handler' = [wrapper_handler EXCEPT ![c] =
                       WrapHandler(middleware_functions, [layers |-> <<>>, base |-> final_handler])]
                /\ pc' = [pc EXCEPT ![c] = "dispatch"]
                /\ UNCHANGED pending
           ELSE /\ pending' = [pending EXCEPT ![c] =
                       SendCall(404, "404 Not Found: Path not found.", k, "try", "finally")]
                /\ pc' = [pc EXCEPT ![c] = "send"]
                /\ UNCHANGED wrapper_handler
        /\ UNCHANGED << serverVars, input, stream, peer, invoked, sent, closeCalls >>

\* The wrapper closures entered from the outside in, as trace events.
EnterEvents(layers, k) == [i \in 1..Len(layers) |-> Event("enter", k, 0, layers[i])]

\* The wrapper closures left from the inside out, each with the response
\* or the exception of the callable it wraps in hand.
ExitEvents(layers, k) ==
    [i \in 1..Len(layers) |-> Event("exit", k, 0, layers[Len(layers) + 1 - i])]

\* Dispatch whose innermost wrapper calls the route's handler a second time
\* with the same Request.
Dispatch_CallTwice(c, jwt) ==
    LET w     == wrapper_handler[c]
        k     == Len(framed[c])
        check == IF HasAuthLayer(w) THEN AuthCheck(request[c].headers, jwt)
                 ELSE Response(0, "")
        req   == IF HasAuthLayer(w) THEN [request[c] EXCEPT !.user = "payload"] ELSE request[c]
    IN  /\ pc[c] = "dispatch"
        /\ IF check.status = 0
           THEN /\ request' = [request EXCEPT ![c] = req]
                /\ invoked' = [invoked EXCEPT ![c] = @ \o << req, req >>]
                /\ trace' = [trace EXCEPT ![c] =
                       @ \o << Event("dispatch", k, 0, "") >> \o EnterEvents(w.layers, k)
                         \o << Event("call", k, 0, w.base.name), Event("call", k, 0, w.base.name) >>]
                /\ pc' = [pc EXCEPT ![c] = "handler"]
                /\ UNCHANGED pending
           ELSE /\ pending' = [pending EXCEPT ![c] =
                       SendCall(check.status, check.content[1], k, "inner", "loop")]
                /\ trace' = [trace EXCEPT ![c] =
                       @ \o << Event("dispatch", k, 0, "") >> \o EnterEvents(w.layers, k)
                         \o ExitEvents(w.layers, k)
                         \o << Event("result", k, check.status, "") >>]
                /\ pc' = [pc EXCEPT ![c] = "send"]
                /\ UNCHANGED << request, invoked >>
        /\ UNCHANGED << serverVars, client_buffer, input, stream, peer, wrapper_handler, framed,
                        sent, closeCalls >>

\* Dispatch with an auth wrapper that calls next_handler whenever the
\* header reads "Bearer <token>", whether or not the token decoded.
Dispatch_IgnoreDecodeError(c, jwt) ==
    LET w     == wrapper_handler[c]
        k     == Len(framed[c])
        check == IF HasAuthLayer(w) THEN AuthCheck(request[c].headers, "ok")
                 ELSE Response(0, "")
        req   == IF HasAuthLayer(w) /\ jwt = "ok"
                 THEN [request[c] EXCEPT !.user = "payload"] ELSE request[c]
    IN  /\ pc[c] = "dispatch"
        /\ IF check.status = 0
           THEN /\ request' = [request EXCEPT ![c] = req]
                /\ invoked' = [invoked EXCEPT ![c] = Append(@, req)]
                /\ trace' = [trace EXCEPT ![c] =
                       @ \o << Event("dispatch", k, 0, "") >> \o EnterEvents(w.layers, k)
                         \o << Event("call", k, 0, w.base.name) >>]
                /\ pc' = [pc EXCEPT ![c] = "handler"]
                /\ UNCHANGED pending
           ELSE /\ pending' = [pending EXCEPT ![c] =
                       SendCall(check.status, check.content[1], k, "inner", "loop")]
                /\ trace' = [trace EXCEPT ![c] =
                       @ \o << Event("dispatch", k, 0, "") >> \o EnterEvents(w.layers, k)
                         \o ExitEvents(w.layers, k)
                         \o << Event("result", k, check.status, "") >>]
                /\ pc' = [pc EXCEPT ![c] = "send"]
                /\ UNCHANGED << request, invoked >>
        /\ UNCHANGED << serverVars, client_buffer, input, stream, peer, wrapper_handler, framed,
                        sent, closeCalls >>

\* wrapper_handler(request) is called: the wrappers run down to the route's
\* handler, unless auth_middleware's wrapper answers itself.
Dispatch(c, jwt) ==
    LET w     == wrapper_handler[c]
        k     == Len(framed[c])
        check == IF HasAuthLayer(w) THEN AuthCheck(request[c].headers, jwt)
                 ELSE Response(0, "")
        req   == IF HasAuthLayer(w) THEN [request[c] EXCEPT !.user = "payload"] ELSE request[c]
    IN  /\ pc[c] = "dispatch"
        /\ IF check.status = 0
           THEN /\ request' = [request EXCEPT ![c] = req]
                /\ invoked' = [invoked EXCEPT ![c] = Append(@, req)]
                /\ trace' = [trace EXCEPT ![c] =
                       @ \o << Event("dispatch", k, 0, "") >> \o EnterEvents(w.layers, k)
                         \o << Event("call", k, 0, w.base.name) >>]
                /\ pc' = [pc EXCEPT ![c] = "handler"]
                /\ UNCHANGED pending
           ELSE /\ pending' = [pending EXCEPT ![c] =
                       SendCall(check.status, check.content[1], k, "inner", "loop")]
                /\ trace' = [trace EXCEPT ![c] =
                       @ \o << Event("dispatch", k, 0, "") >> \o EnterEvents(w.layers, k)
                         \o ExitEvents(w.layers, k)
                         \o << Event("result", k, check.status, "") >>]
                /\ pc' = [pc EXCEPT ![c] = "send"]
                /\ UNCHANGED << request, invoked >>
        /\ UNCHANGED << serverVars, client_buffer, input, stream, peer, wrapper_handler, framed,
                        sent, closeCalls >>

\* HandlerReturn that goes back to the framer without sending the response
\* of a handler that returned.
HandlerReturn_NoSend(c, o) ==
    LET k   == Len(framed[c])
        out == WrappedOutcome(wrapper_handler[c], o)
    IN  /\ pc[c] = "handler"
        /\ trace' = [trace EXCEPT ![c] =
              @ \o << Event("return", k, o.status, o.exc) >>
                \o ExitEvents(wrapper_handler[c].layers, k)
                \o << Event("result", k, out.status, out.exc) >>]
        /\ pending' = [pending EXCEPT ![c] =
              IF out.kind = "return"
              THEN SendCall(out.status,
                            IF o.kind = "return" THEN "handler content"
                            ELSE "500 Internal Server Error: Authentication error.",
                            k, "inner", "loop")
              ELSE IF out.exc = "TypeError"
              THEN SendCall(500, "500 Internal Server Error: Handler signature mismatch.",
                            k, "try", "finally")
              ELSE SendCall(500, "500 Internal Server Error: Handler error.",
                            k, "try", "finally")]
        /\ pc' = [pc EXCEPT ![c] = IF out.kind = "return" THEN "parse" ELSE "send"]
        /\ UNCHANGED << serverVars, client_buffer, input, stream, peer, request, wrapper_handler,
                        framed, invoked, sent, closeCalls >>

\* The route's handler finishes with outcome o ("return" in the trace) and
\* wrapper_handler(request) with it ("result"): a returned triple is sent
\* and the loop continues; TypeError and any other exception send 500 and
\* break.
HandlerReturn(c, o) ==
    LET k   == Len(framed[c])
        out == WrappedOutcome(wrapper_handler[c], o)
    IN  /\ pc[c] = "handler"
        /\ trace' = [trace EXCEPT ![c] =
              @ \o << Event("return", k, o.status, o.exc) >>
                \o ExitEvents(wrapper_handler[c].layers, k)
                \o << Event("result", k, out.status, out.exc) >>]
        /\ pending' = [pending EXCEPT ![c] =
              IF out.kind = "return"
              THEN SendCall(out.status,
                            IF o.kind = "return" THEN "handler content"
                            ELSE "500 Internal Server Error: Authentication error.",
                            k, "inner", "loop")
              ELSE IF out.exc = "TypeError"
              THEN SendCall(500, "500 Internal Server Error: Handler signature mismatch.",
                            k, "try", "finally")
              ELSE SendCall(500, "500 Internal Server Error: Handler error.",
                            k, "try", "finally")]
        /\ pc' = [pc EXCEPT ![c] = "send"]
        /\ UNCHANGED << serverVars, client_buffer, input, stream, peer, request, wrapper_handler,
                        framed, invoked, sent, closeCalls >>


\* RecvData with "client_buffer = data" in place of "client_buffer += data".
RecvData_Overwrite(c, n) ==
    LET buf == Take(stream[c], n)
    IN  /\ pc[c] = "recv"
        /\ peer[c] = "open"
        /\ n \in 1..Min(RecvSize, Len(stream[c]))
        /\ client_buffer' = [client_buffer EXCEPT ![c] = buf]
        /\ stream' = [stream EXCEPT ![c] = Drop(@, n)]
        /\ IF Len(buf) > MAX_BUFFER_SIZE
           THEN /\ pending' = [pending EXCEPT ![c] =
                       SendCall(413, "413 Payload Too Large: Request or buffered data exceeds limit.",
                                0, "try", "finally")]
                /\ trace' = [trace EXCEPT ![c] = Append(@, Event("overflow", 0, 0, ""))]
                /\ pc' = [pc EXCEPT ![c] = "send"]
           ELSE /\ pc' = [pc EXCEPT ![c] = "parse"]
                /\ UNCHANGED << pending, trace >>
        /\ UNCHANGED << serverVars, input, peer, request, wrapper_handler, framed, invoked,
                        sent, closeCalls >>

\* RecvData without the MAX_BUFFER_SIZE check.
RecvData_NoCap(c, n) ==
    LET buf == client_buffer[c] \o Take(stream[c], n)
    IN  /\ pc[c] = "recv"
        /\ peer[c] = "open"
        /\ n \in 1..Min(RecvSize, Len(stream[c]))
        /\ client_buffer' = [client_buffer EXCEPT ![c] = buf]
        /\ stream' = [stream EXCEPT ![c] = Drop(@, n)]
        /\ pc' = [pc EXCEPT ![c] = "parse"]
        /\ UNCHANGED << pending, trace >>
        /\ UNCHANGED << serverVars, input, peer, request, wrapper_handler, framed, invoked,
                        sent, closeCalls >>

\* RecvData that compares the buffer with the cap before appending the
\* bytes just read.
RecvData_CheckBeforeAppend(c, n) ==
    LET buf == client_buffer[c] \o Take(stream[c], n)
    IN  /\ pc[c] = "recv"
        /\ peer[c] = "open"
        /\ n \in 1..Min(RecvSize, Len(stream[c]))
        /\ client_buffer' = [client_buffer EXCEPT ![c] = buf]
        /\ stream' = [stream EXCEPT ![c] = Drop(@, n)]
        /\ IF Len(client_buffer[c]) > MAX_BUFFER_SIZE
           THEN /\ pending' = [pending EXCEPT ![c] =
                       SendCall(413, "413 Payload Too Large: Request or buffered data exceeds limit.",
                                0, "try", "finally")]
                /\ trace' = [trace EXCEPT ![c] = Append(@, Event("overflow", 0, 0, ""))]
                /\ pc' = [pc EXCEPT ![c] = "send"]
           ELSE /\ pc' = [pc EXCEPT ![c] = "parse"]
                /\ UNCHANGED << pending, trace >>
        /\ UNCHANGED << serverVars, input, peer, request, wrapper_handler, framed, invoked,
                        sent, closeCalls >>

\* client_sock.recv(4096) returned n bytes: append them, then check the cap.
RecvData(c, n) ==
    LET buf == client_buffer[c] \o Take(stream[c], n)
    IN  /\ pc[c] = "recv"
        /\ peer[c] = "open"
        /\ n \in 1..Min(RecvSize, Len(stream[c]))
        /\ client_buffer' = [client_buffer EXCEPT ![c] = buf]
        /\ stream' = [stream EXCEPT ![c] = Drop(@, n)]
        /\ IF Len(buf) > MAX_BUFFER_SIZE
           THEN /\ pending' = [pending EXCEPT ![c] =
                       SendCall(413, "413 Payload Too Large: Request or buffered data exceeds limit.",
                                0, "try", "finally")]
                /\ trace' = [trace EXCEPT ![c] = Append(@, Event("overflow", 0, 0, ""))]
                /\ pc' = [pc EXCEPT ![c] = "send"]
           ELSE /\ pc' = [pc EXCEPT ![c] = "parse"]
                /\ UNCHANGED << pending, trace >>
        /\ UNCHANGED << serverVars, input, peer, request, wrapper_handler, framed, invoked,
                        sent, closeCalls >>

\* recv returned b"": the client closed its side; break.
RecvEOF(c) ==
    /\ pc[c] = "recv"
    /\ peer[c] = "open"
    /\ pc' = [pc EXCEPT ![c] = "finally"]
    /\ trace' = [trace EXCEPT ![c] = Append(@, Event("eof", 0, 0, ""))]
    /\ UNCHANGED << serverVars, client_buffer, input, stream, peer, request, wrapper_handler,
                    pending, framed, invoked, sent, closeCalls >>

\* A read timeout answered with a 408 before the close.
RecvTimeout_Respond(c) ==
    /\ pc[c] = "recv"
    /\ peer[c] = "open"
    /\ pc' = [pc EXCEPT ![c] = "send"]
    /\ pending' = [pending EXCEPT ![c] = SendCall(408, "408 Request Timeout", 0, "except", "finally")]
    /\ trace' = [trace EXCEPT ![c] = Append(@, Event("timeout", 0, 0, ""))]
    /\ UNCHANGED << serverVars, client_buffer, input, stream, peer, request, wrapper_handler,
                    framed, invoked, sent, closeCalls >>

\* recv raised socket.timeout after the 10 s idle timeout.
RecvTimeout(c) ==
    /\ pc[c] = "recv"
    /\ peer[c] = "open"
    /\ pc' = [pc EXCEPT ![c] = "finally"]
    /\ trace' = [trace EXCEPT ![c] = Append(@, Event("timeout", 0, 0, ""))]
    /\ UNCHANGED << serverVars, client_buffer, input, stream, peer, request, wrapper_handler,
                    pending, framed, invoked, sent, closeCalls >>

\* send_response: sendall wrote the response.
SendOk(c) ==
    /\ pc[c] = "send"
    /\ peer[c] = "open"
    /\ sent' = [sent EXCEPT ![c] = Append(@, [status |-> pending[c].status,
                                              content |-> pending[c].content,
                                              req |-> pending[c].req])]
    /\ trace' = [trace EXCEPT ![c] = Append(@, Event("send", pending[c].req, pending[c].status, ""))]
    /\ pc' = [pc EXCEPT ![c] = IF pending[c].after = "loop" THEN "parse" ELSE "finally"]
    /\ pending' = [pending EXCEPT ![c] = NoPending]
    /\ UNCHANGED << serverVars, client_buffer, input, stream, peer, request, wrapper_handler,
                    framed, invoked, closeCalls >>

\* finally that closes the socket of every connection.
Finally_CloseAll(c) ==
    /\ pc[c] = "finally"
    /\ peer[c] = "open"
    /\ closeCalls' = [d \in Conns |-> closeCalls[d] + 1]
    /\ trace' = [trace EXCEPT ![c] = Append(@, Event("close", 0, 0, ""))]
    /\ pc' = [pc EXCEPT ![c] = "done"]
    /\ UNCHANGED << serverVars, client_buffer, input, stream, peer, request, wrapper_handler,
                    pending, framed, invoked, sent >>

\* finally: print(getpeername()), then client_sock.close().
Finally(c) ==
    /\ pc[c] = "finally"
    /\ peer[c] = "open"
    /\ closeCalls' = [closeCalls EXCEPT ![c] = @ + 1]
    /\ trace' = [trace EXCEPT ![c] = Append(@, Event("close", 0, 0, ""))]
    /\ pc' = [pc EXCEPT ![c] = "done"]
    /\ UNCHANGED << serverVars, client_buffer, input, stream, peer, request, wrapper_handler,
                    pending, framed, invoked, sent >>

(***************************************************************************)
(* Transport failures.                                                     *)
(***************************************************************************)
\* The peer resets the connection (RST): from then on recv and sendall raise
\* OSError and getpeername raises OSError (ENOTCONN).
PeerReset(c) ==
    /\ Running(c)
    /\ peer[c] = "open"
    /\ peer' = [peer EXCEPT ![c] = "reset"]
    /\ UNCHANGED << serverVars, pc, client_buffer, input, stream, request, wrapper_handler,
                    pending, framed, invoked, sent, closeCalls, trace >>

\* recv raised ConnectionResetError: except Exception sends 500.
RecvReset(c) ==
    /\ pc[c] = "recv"
    /\ peer[c] = "reset"
    /\ pending' = [pending EXCEPT ![c] =
          SendCall(500, "500 Internal Server Error.", 0, "except", "finally")]
    /\ pc' = [pc EXCEPT ![c] = "send"]
    /\ UNCHANGED << serverVars, client_buffer, input, stream, peer, request, wrapper_handler,
                    framed, invoked, sent, closeCalls, trace >>

\* sendall raised socket.timeout (the peer does not read): send_response
\* prints the error, with getpeername still working, and returns normally.
SendTimeout(c) ==
    /\ pc[c] = "send"
    /\ peer[c] = "open"
    /\ trace' = [trace EXCEPT ![c] = Append(@, Event("sendfail", pending[c].req, pending[c].status, ""))]
    /\ pc' = [pc EXCEPT ![c] = IF pending[c].after = "loop" THEN "parse" ELSE "finally"]
    /\ pending' = [pending EXCEPT ![c] = NoPending]
    /\ UNCHANGED << serverVars, client_buffer, input, stream, peer, request, wrapper_handler,
                    framed, invoked, sent, closeCalls >>

\* sendall raised on a reset connection and getpeername() in the except
\* clause of send_response raised too: the OSError leaves send_response.
\* From the try around the handler call it is caught by except Exception
\* there (500, break); from the outer try body by the outer except
\* Exception (500); from an outer except clause it goes on to finally.
SendReset(c) ==
    /\ pc[c] = "send"
    /\ peer[c] = "reset"
    /\ trace' = [trace EXCEPT ![c] = Append(@, Event("sendfail", pending[c].req, pending[c].status, ""))]
    /\ CASE pending[c].ctx = "inner" ->
              /\ pending' = [pending EXCEPT ![c] =
                    SendCall(500, "500 Internal Server Error: Handler error.",
                             pending[c].req, "try", "finally")]
              /\ UNCHANGED pc
         [] pending[c].ctx = "try" ->
              /\ pending' = [pending EXCEPT ![c] =
                    SendCall(500, "500 Internal Server Error.", 0, "except", "finally")]
              /\ UNCHANGED pc
         [] OTHER ->
              /\ pending' = [pending EXCEPT ![c] = NoPending]
              /\ pc' = [pc EXCEPT ![c] = "finally"]
    /\ UNCHANGED << serverVars, client_buffer, input, stream, peer, request, wrapper_handler,
                    framed, invoked, sent, closeCalls >>

\* finally on a reset connection: getpeername() raises before close() is
\* reached and the exception leaves handle_client.
FinallyRaises(c) ==
    /\ pc[c] = "finally"
    /\ peer[c] = "reset"
    /\ pc' = [pc EXCEPT ![c] = "crashed"]
    /\ UNCHANGED << serverVars, client_buffer, input, stream, peer, request, wrapper_handler,
                    pending, framed, invoked, sent, closeCalls, trace >>

(***************************************************************************)
(* WebServer.send_response: the bytes handed to sendall.                   *)
(***************************************************************************)
STATUS_LINES ==
    200 :> <<"O", "K">> @@
    201 :> <<"C", "r", "e", "a", "t", "e", "d">> @@
    204 :> <<"N", "o", " ", "C", "o", "n", "t", "e", "n", "t">> @@
    301 :> <<"M", "o", "v", "e", "d", " ", "P", "e", "r", "m", "a", "n", "e", "n", "t", "l", "y">> @@
    302 :> <<"F", "o", "u", "n", "d">> @@
    400 :> <<"B", "a", "d", " ", "R", "e", "q", "u", "e", "s", "t">> @@
    403 :> <<"F", "o", "r", "b", "i", "d", "d", "e", "n">> @@
    404 :> <<"N", "o", "t", " ", "F", "o", "u", "n", "d">> @@
    405 :> <<"M", "e", "t", "h", "o", "d", " ", "N", "o", "t", " ", "A", "l", "l", "o", "w", "e", "d">> @@
    500 :> <<"I", "n", "t", "e", "r", "n", "a", "l", " ", "S", "e", "r", "v", "e", "r", " ", "E", "r", "r", "o", "r">> @@
    501 :> <<"N", "o", "t", " ", "I", "m", "p", "l", "e", "m", "e", "n", "t", "e", "d">>
UnknownStatus == <<"U", "n", "k", "n", "o", "w", "n", " ", "S", "t", "a", "t", "u", "s">>
ContentTypeName == <<"C", "o", "n", "t", "e", "n", "t", "-", "T", "y", "p", "e">>
ConnectionName == <<"C", "o", "n", "n", "e", "c", "t", "i", "o", "n">>
DateName == <<"D", "a", "t", "e">>
ServerName == <<"S", "e", "r", "v", "e", "r">>
ServerValue ==
    << "P", "r", "a", "t", "i", "k", "'", "s", " ", "H", "T", "T", "P", " ", "S", "e", "r",
       "v", "e", "r" >>
KeepAlive == <<"k", "e", "e", "p", "-", "a", "l", "i", "v", "e">>
Close == <<"c", "l", "o", "s", "e">>

\* datetime.datetime.today().date() as the f-string prints it, on the day
\* of the run.
Today == <<"2", "0", "2", "5", "-", "0", "6", "-", "0", "1">>

\* str(n) of a non-negative int.
RECURSIVE IntToStr(_)
IntToStr(n) == IF n < 10 THEN <<Digits[n + 1]>> ELSE IntToStr(n \div 10) \o <<Digits[(n % 10) + 1]>>

\* f"{name}: {value}\r\n" for each entry of the headers dict, in its order.
RECURSIVE HeaderLines(_)
HeaderLines(hs) ==
    IF hs = <<>> THEN <<>>
    ELSE Head(hs)[1] \o <<":", " ">> \o Head(hs)[2] \o CRLF \o HeaderLines(Tail(hs))

\* send_response that forgets the empty line that ends the header section.
send_response_NoBlankLine(status_code, content_type, content) ==
    LET status_message == IF status_code \in DOMAIN STATUS_LINES THEN STATUS_LINES[status_code]
                          ELSE UnknownStatus
        response_line  == HTTP11 \o <<" ">> \o IntToStr(status_code) \o <<" ">>
                            \o status_message \o CRLF
        headers == << <<ContentTypeName, content_type>>,
                      <<ContentLengthName, IntToStr(Len(content))>>,
                      <<ConnectionName, IF status_code = 200 THEN KeepAlive ELSE Close>>,
                      <<DateName, Today>>,
                      <<ServerName, ServerValue>> >>
        header_lines == HeaderLines(headers)
    IN  response_line \o header_lines \o content

\* send_response that indexes STATUS_LINES[status_code]: the KeyError of a
\* code without an entry ends the call before anything is written.
send_response_KeyError(status_code, content_type, content) ==
    LET response_line  == HTTP11 \o <<" ">> \o IntToStr(status_code) \o <<" ">>
                            \o STATUS_LINES[status_code] \o CRLF
        headers == << <<ContentTypeName, content_type>>,
                      <<ContentLengthName, IntToStr(Len(content))>>,
                      <<ConnectionName, IF status_code = 200 THEN KeepAlive ELSE Close>>,
                      <<DateName, Today>>,
                      <<ServerName, ServerValue>> >>
        header_lines == HeaderLines(headers) \o CRLF
    IN  IF status_code \notin DOMAIN STATUS_LINES THEN <<>>
        ELSE response_line \o header_lines \o content

send_response(status_code, content_type, content) ==
    LET status_message == IF status_code \in DOMAIN STATUS_LINES THEN STATUS_LINES[status_code]
                          ELSE UnknownStatus
        response_line  == HTTP11 \o <<" ">> \o IntToStr(status_code) \o <<" ">>
                            \o status_message \o CRLF
        headers == << <<ContentTypeName, content_type>>,
                      <<ContentLengthName, IntToStr(Len(content))>>,
                      <<ConnectionName, IF status_code = 200 THEN KeepAlive ELSE Close>>,
                      <<DateName, Today>>,
                      <<ServerName, ServerValue>> >>
        header_lines == HeaderLines(headers) \o CRLF
    IN  response_line \o header_lines \o content

\* The status codes the server and its handlers answer with, the content
\* types they pass, and bodies: empty, text, text holding a blank line and a
\* header look-alike, bytes that are not UTF-8.
StatusCodes == {200, 201, 204, 301, 400, 401, 404, 409, 413, 500}
TextPlain == <<"t", "e", "x", "t", "/", "p", "l", "a", "i", "n">>
ApplicationJson ==
    << "a", "p", "p", "l", "i", "c", "a", "t", "i", "o", "n", "/", "j", "s", "o", "n" >>
TextHtml == <<"t", "e", "x", "t", "/", "h", "t", "m", "l">>
ContentTypes == {TextPlain, ApplicationJson, TextHtml}
Bodies ==
    { <<>>, <<"o", "k">>, <<"a">> \o CRLF \o CRLF \o ContentLengthName \o <<":", " ", "9">> \o CRLF,
      <<BadByte, "x", BadByte>> }

(***************************************************************************)
(* The Router on its own: any add_route calls, any resolve_route calls.    *)
(***************************************************************************)
MaxRoutes == 2
PathA == <<"/", "a">>
RouteMethods == {GET, lower(GET), POST}
RoutePaths == {PathA, upper(PathA)}
LookupPaths == RoutePaths \cup {PathA \o <<"/">>, Root}
\* The (handler, handler_args) pairs registered.
RouteTargets ==
    { <<PublicHandler, NoArgs>>, <<PostHandler, "{name: Alice}">> }

RegisterRoute(method, path, handler, handler_args) ==
    /\ phase = "setup"
    /\ Len(regLog) < MaxRoutes
    /\ routes' = add_route(routes, method, path, handler, handler_args)
    /\ regLog' = Append(regLog, [method |-> method, path |-> path, handler |-> handler,
                                 handler_args |-> handler_args])
    /\ UNCHANGED << phase, middleware_functions, added, unitVars, acceptorVars, connVars >>

ResolveRoute(method, path) ==
    /\ phase = "setup"
    /\ resolved' = [method |-> method, path |-> path,
                    result |-> resolve_route(routes, method, path)]
    /\ UNCHANGED << phase, routes, middleware_functions, added, regLog, written, wire, url, loaded,
                    acceptorVars, connVars >>

\* A send_response call on a socket whose sendall takes the bytes.
SendResponse(status_code, content_type, content) ==
    /\ written' = [status_code |-> status_code, content_type |-> content_type,
                   content |-> content]
    /\ wire' = send_response(status_code, content_type, content)
    /\ UNCHANGED << phase, routes, middleware_functions, added, regLog, resolved, url, loaded,
                    acceptorVars, connVars >>

\* The one load_routes call of a run, on a router that may hold routes, with
\* a configuration file of any kind.
MaxEntries == 3
GoodEntries ==
    { RouteEntry(GET, PathA, "serve_static_file", NoArgs),
      RouteEntry(lower(POST), PathA, "login_user", "{name: Alice}"),
      RouteEntry(GET, PathA, "get_data", NoArgs) }
BadEntries ==
    { RouteEntry(<<>>, PathA, "serve_static_file", NoArgs),
      RouteEntry(GET, <<>>, "serve_static_file", NoArgs),
      RouteEntry(GET, PathA, "", NoArgs),
      RouteEntry(GET, PathA, "non_existent_handler", NoArgs),
      NotAnObject }
EntryLists == UNION { [1..n -> GoodEntries \cup BadEntries] : n \in 0..MaxEntries }
UnusableConfigs ==
    { ConfigFile("missing", "", <<>>), ConfigFile("invalid", "", <<>>),
      ConfigFile("ok", "absent", <<>>), ConfigFile("ok", "other", <<>>) }
Configs == UnusableConfigs \cup { ConfigFile("ok", "list", entries) : entries \in EntryLists }

LoadConfig(config) ==
    LET r == load_routes(routes, config)
    IN  /\ phase = "setup"
        /\ ~loaded.done
        /\ routes' = r.routes
        /\ regLog' = regLog \o r.log
        /\ loaded' = [done |-> TRUE, config |-> config, before |-> routes, raised |-> r.raised]
        /\ UNCHANGED << phase, middleware_functions, added, resolved, written, wire, url,
                        acceptorVars, connVars >>

\* The one parse_url_path_and_query call of a run, on the target made of a
\* path, the query fields joined by "&" and, with fragment, a "#f" at the end.
MaxFields == 3
QueryFields ==
    { <<"a", "=", "1">>, <<"a", "=", "2">>, <<"b">>, <<"b", "=">>,
      <<"%", "6", "1", "=", "x", "+", "y">>, <<"=", "v">>, <<>> }
TargetPaths == { Root, <<"/", "p", "%", "2", "0", "q">> }
RECURSIVE JoinFields(_)
JoinFields(fields) ==
    IF fields = <<>> THEN <<>>
    ELSE IF Len(fields) = 1 THEN fields[1]
    ELSE fields[1] \o <<"&">> \o JoinFields(Tail(fields))
TargetOf(path, fields, fragment) ==
    path \o (IF fields = <<>> THEN <<>> ELSE <<"?">> \o JoinFields(fields))
         \o (IF fragment THEN <<"#", "f">> ELSE <<>>)
FieldLists == UNION { [1..n -> QueryFields] : n \in 0..MaxFields }

ParseTarget(path, fields, fragment) ==
    LET r == parse_url_path_and_query(TargetOf(path, fields, fragment))
    IN  /\ url = NoUrl
        /\ url' = [fields |-> fields, target |-> TargetOf(path, fields, fragment),
                   path |-> r.path, params |-> r.params]
        /\ UNCHANGED << phase, routes, middleware_functions, added, regLog, resolved,
                        written, wire, loaded, acceptorVars, connVars >>

(***************************************************************************)
(* Specifications.                                                         *)
(***************************************************************************)
Setup ==
    \/ \E m \in Middlewares : add_middleware(m)
    \/ LoadRoutes
    \/ Start
    \/ \E c \in SoleConn, s \in Streams : Accept(c, s)

HandleClient(c) ==
    \/ ParseNeedMore(c)
    \/ ParseError(c)
    \/ FrameRequest(c)
    \/ \E jwt \in JwtOutcomes : Dispatch(c, jwt)
    \/ \E o \in HandlerOutcomes : HandlerReturn(c, o)
    \/ \E n \in 1..RecvSize : RecvData(c, n)
    \/ RecvEOF(c)
    \/ RecvTimeout(c)
    \/ SendOk(c)
    \/ Finally(c)

TransportFailure(c) ==
    \/ PeerReset(c)
    \/ RecvReset(c)
    \/ SendTimeout(c)
    \/ SendReset(c)
    \/ FinallyRaises(c)

\* The server with a transport that delivers: clients send, stall or close.
Next == Setup \/ \E c \in Conns : HandleClient(c)
Spec == Init /\ [][Next]_vars

\* The Router under any registrations and lookups.
NextRouter ==
    \/ \E method \in RouteMethods, path \in RoutePaths, target \in RouteTargets :
          RegisterRoute(method, path, target[1], target[2])
    \/ \E method \in RouteMethods \cup {DELETE}, path \in LookupPaths :
          ResolveRoute(method, path)
SpecRouter == Init /\ [][NextRouter]_vars

\* send_response on every status, content type and body.
NextSend ==
    \E status_code \in StatusCodes, content_type \in ContentTypes, content \in Bodies :
        SendResponse(status_code, content_type, content)
SpecSend == Init /\ [][NextSend]_vars

\* The acceptor and two connections at once: a good request, a malformed
\* one and one that overflows the buffer, each read taking all the socket
\* can give, over a transport that can fail, until accept() raises.
ServerStreams == {GetRoot, BadMethod, EndlessHeader}
ServerOutcomes == {o \in HandlerOutcomes : o.status = 200 \/ o.exc = "Exception"}
AcceptErrors == {"KeyboardInterrupt", "OSError"}
ServeClient(c) ==
    \/ ParseNeedMore(c)
    \/ ParseError(c)
    \/ FrameRequest(c)
    \/ Dispatch(c, "ok")
    \/ \E o \in ServerOutcomes : HandlerReturn(c, o)
    \/ RecvData(c, Min(RecvSize, Len(stream[c])))
    \/ RecvEOF(c)
    \/ RecvTimeout(c)
    \/ SendOk(c)
    \/ Finally(c)
NextServer ==
    \/ LoadRoutes
    \/ Start
    \/ \E c \in Conns, s \in ServerStreams : Accept(c, s)
    \/ \E c \in Conns : ServeClient(c)
    \/ \E c \in Conns : TransportFailure(c)
    \/ \E cause \in AcceptErrors : AcceptorEnds(cause)
SpecServer == Init /\ [][NextServer]_vars

\* Two connections at once behind auth_middleware: one that authenticates
\* and then asks for a public route, one that asks for the protected route
\* without a token, one whose request is malformed.
PrincipalStreams == {GetProtectedBearer \o GetRoot, GetProtected, BadMethod}
NextPrincipal ==
    \/ add_middleware("auth")
    \/ LoadRoutes
    \/ Start
    \/ \E c \in Conns, s \in PrincipalStreams : Accept(c, s)
    \/ \E c \in Conns : ServeClient(c)
SpecPrincipal == Init /\ [][NextPrincipal]_vars

\* One connection whose thread keeps being scheduled: every step of
\* handle_client that can be taken is taken in the end (a handler call
\* returns or raises, recv returns within its 10 s timeout, sendall and
\* close return or raise), and the client's bytes are finite, so a read
\* ends up returning b"", timing out or failing on a reset connection.
LiveStreams == {GetRoot, PostBody \o GetRoot, BadMethod, EndlessHeader}

\* A framing attempt and what it leads to at once.
FramingStep(c) == ParseNeedMore(c) \/ ParseError(c) \/ FrameRequest(c)

\* Every other step of the thread.
IoStep(c) ==
    \/ Dispatch(c, "ok")
    \/ \E o \in ServerOutcomes : HandlerReturn(c, o)
    \/ RecvData(c, Min(RecvSize, Len(stream[c])))
    \/ RecvEOF(c)
    \/ RecvTimeout(c)
    \/ RecvReset(c)
    \/ SendOk(c)
    \/ SendReset(c)
    \/ Finally(c)
    \/ FinallyRaises(c)

\* Weak fairness of the framing attempt, WF_vars(FramingStep(c)), written
\* out: the framer answers on every buffer, so FramingStep(c) is enabled
\* exactly when the thread is at the top of the loop.
FramingScheduled(c) == []<>(pc[c] # "parse") \/ []<><<FramingStep(c)>>_vars

NextLive ==
    \/ LoadRoutes
    \/ Start
    \/ \E c \in SoleConn, s \in LiveStreams : Accept(c, s)
    \/ \E c \in SoleConn : ServeClient(c)
    \/ \E c \in SoleConn : TransportFailure(c)
SpecLive ==
    Init /\ [][NextLive]_vars
      /\ \A c \in SoleConn : WF_vars(IoStep(c)) /\ FramingScheduled(c)

\* load_routes on every configuration, on a router with or without routes.
NextLoader ==
    \/ ~loaded.done /\ RegisterRoute(POST, upper(PathA), PostHandler, NoArgs)
    \/ \E config \in Configs : LoadConfig(config)
SpecLoader == Init /\ [][NextLoader]_vars

\* parse_url_path_and_query on every target of up to MaxFields query fields.
NextUrl ==
    \E path \in TargetPaths, fields \in FieldLists, fragment \in BOOLEAN :
        ParseTarget(path, fields, fragment)
SpecUrl == Init /\ [][NextUrl]_vars

\* The server on requests with unusual lines.
NextLines ==
    \/ \E m \in Middlewares : add_middleware(m)
    \/ LoadRoutes
    \/ Start
    \/ \E c \in SoleConn, s \in LineStreams : Accept(c, s)
    \/ \E c \in Conns : HandleClient(c)
SpecLines == Init /\ [][NextLines]_vars

\* The same with connection resets and failing sends.
NextNet == Next \/ \E c \in Conns : TransportFailure(c)
SpecNet == Init /\ [][NextNet]_vars


(***************************************************************************)
(* Properties.                                                             *)
(***************************************************************************)
Accepted == {c \in Conns : pc[c] # "unaccepted"}

\* The positions of the trace of c that hold an event of kind ev.
Events(c, ev) == {i \in 1..Len(trace[c]) : trace[c][i].ev = ev}

\* The Request the framer yields when the whole of the bytes r is in the
\* buffer at once.
WholeRequest(r) == Request(parse_request_from_buffer(r).components)

\* Length of the header block of r, through the CRLFCRLF terminator.
HeaderBlockLen(r) == find(r, Terminator) + 4

IsPrefix(p, s) == Len(p) <= Len(s) /\ Take(s, Len(p)) = p

\* b holds the complete header block of the valid request r but not yet all
\* of its body.
BodyIncomplete(b, r) ==
    /\ IsPrefix(b, r)
    /\ Len(b) >= HeaderBlockLen(r)
    /\ Len(b) < Len(r)

\* Valid requests that declare a body, with the body length they declare.
BodyRequests == {PostBody, BinaryPost, HugeHeader \o Filler(99)}

\* The body length a framed request declared in its headers.
DeclaredLength(req) ==
    IF ContentLengthStr(req.headers) = <<>> THEN 0
    ELSE IntValue(ContentLengthStr(req.headers))

\* C1: on a buffer that holds a complete valid header block but fewer body
\* bytes than its Content-Length declares, or that holds no header
\* terminator at all (the empty buffer included), the framer returns
\* (None, 0); no framed request has a body shorter than the length it
\* declares.
C1_NeedMoreData ==
    \A c \in Accepted :
        /\ (\/ ~Contains(client_buffer[c], Terminator)
            \/ \E r \in BodyRequests : BodyIncomplete(client_buffer[c], r))
           => parse_request_from_buffer(client_buffer[c]) = NeedMoreData
        /\ \A k \in 1..Len(framed[c]) :
               Len(framed[c][k].body) = DeclaredLength(framed[c][k])

\* The framer has just answered (None, 0) on a header block with a part of
\* the body.
C1_Witness ==
    \E c \in Accepted :
        /\ pc[c] = "recv"
        /\ client_buffer[c] = Take(PostBody, Len(PostBody) - 1)
        /\ Events(c, "partial") # {}
        /\ framed[c] = <<>>

\* The loop has tried to frame everything that was delivered.
Settled(c) == pc[c] \in {"recv", "finally", "done"}

\* C2: for a valid request delivered in any sequence of non-empty reads, the
\* handler frames and dispatches exactly one request, equal in method,
\* path, headers, params and body to the one framed when all its bytes are
\* in the buffer at once.
C2_ChunkInvariance ==
    \A c \in Accepted :
        input[c] \in ValidRequests =>
            /\ \A k \in 1..Len(framed[c]) : k = 1 /\ framed[c][k] = WholeRequest(input[c])
            /\ Cardinality(Events(c, "dispatch")) <= Len(framed[c])
            /\ (stream[c] = <<>> /\ Settled(c)) =>
                  /\ Len(framed[c]) = 1
                  /\ Cardinality(Events(c, "dispatch")) = 1

\* A request with a body arrived in more than one read, the framer having
\* been tried on a part of it, and was dispatched.
C2_Witness ==
    \E c \in Accepted :
        /\ input[c] = PostBody
        /\ pc[c] = "recv"
        /\ stream[c] = <<>>
        /\ client_buffer[c] = <<>>
        /\ trace[c][1].ev = "partial"
        /\ Cardinality(Events(c, "dispatch")) = 1
        /\ framed[c][1].body = <<"a", "b">>


\* C3: within one connection the responses are written in the order the
\* requests were framed, the response to request k is written before
\* request k+1 is framed or dispatched, and a handler is called only after
\* the previous call has returned.
C3_InOrder ==
    \A c \in Accepted :
        LET t == trace[c]
        IN  /\ \A j \in Events(c, "frame") :
                 t[j].req > 1 =>
                    \E i \in 1..(j - 1) : t[i].ev = "send" /\ t[i].req = t[j].req - 1
            /\ \A i \in Events(c, "send"), j \in Events(c, "send") :
                 (i < j /\ t[j].req > 0) => t[i].req > 0 /\ t[i].req < t[j].req
            /\ \A i \in Events(c, "call"), j \in Events(c, "call") :
                 i < j => \E m \in (i + 1)..(j - 1) : t[m].ev = "return" /\ t[m].req = t[i].req
            /\ \A j \in Events(c, "dispatch") :
                 \A k \in 1..(t[j].req - 1) :
                    \E i \in 1..(j - 1) : t[i].ev = "send" /\ t[i].req = k

\* Two pipelined requests were both answered on one connection.
C3_Witness ==
    \E c \in Accepted :
        /\ input[c] = PostBody \o GetRoot
        /\ Len(sent[c]) = 2
        /\ sent[c][1].req = 1
        /\ sent[c][2].req = 2
        /\ Cardinality(Events(c, "call")) = 2

\* C4: a step that frames a request from a buffer consumes exactly the
\* header block (through CRLFCRLF) plus Content-Length bytes, takes
\* exactly those Content-Length bytes as the body, and leaves the bytes
\* behind them in the buffer unchanged; every other step leaves the buffer
\* alone or appends received bytes, so the next request is framed from
\* the start of the bytes left behind.
C4_ConsumeExactly ==
    [][\A c \in Accepted :
          LET buf == client_buffer[c]
              h   == HeaderBlockLen(buf)
              new == framed'[c][Len(framed'[c])]
              n   == DeclaredLength(new)
          IN  IF Len(framed'[c]) = Len(framed[c]) + 1
              THEN /\ Len(buf) - Len(client_buffer'[c]) = h + n
                   /\ new.body = SubSeq(buf, h + 1, h + n)
                   /\ client_buffer'[c] = Drop(buf, h + n)
              ELSE /\ framed'[c] = framed[c]
                   /\ IsPrefix(buf, client_buffer'[c])
                   /\ client_buffer'[c] \o stream'[c] = buf \o stream[c]]_vars

\* A request with a body has just been framed from a buffer that also held
\* the whole next request, which is still in the buffer.
C4_Witness ==
    \E c \in Accepted :
        /\ pc[c] = "dispatch"
        /\ Len(framed[c]) = 1
        /\ framed[c][1].body = <<"a", "b">>
        /\ client_buffer[c] = GetRoot

Unrouted(req) == get_route_info(routes, req.method, req.path) = NoHandler

\* C5: a framed request without a route is answered with 404, no handler
\* and no middleware runs for it, the loop is left and the socket closed;
\* nothing is framed or dispatched after it, whatever the buffer holds.
C5_RouteMiss ==
    \A c \in Accepted :
        \A k \in 1..Len(framed[c]) :
            Unrouted(framed[c][k]) =>
                /\ k = Len(framed[c])
                /\ \A i \in 1..Len(trace[c]) :
                       trace[c][i].req = k => trace[c][i].ev \in {"frame", "send"}
                /\ \/ pc[c] = "send" /\ pending[c].status = 404 /\ pending[c].after = "finally"
                   \/ /\ pc[c] \in {"finally", "done"}
                      /\ sent[c][Len(sent[c])].status = 404
                      /\ sent[c][Len(sent[c])].req = k
                      /\ Cardinality({i \in 1..Len(sent[c]) : sent[c][i].req = k}) = 1
                /\ pc[c] = "done" => closeCalls[c] = 1

\* The connection was closed after the 404 with a complete pipelined
\* request still in its buffer.
C5_Witness ==
    \E c \in Accepted :
        /\ pc[c] = "done"
        /\ input[c] = DeleteMissing \o GetRoot
        /\ client_buffer[c] = GetRoot
        /\ sent[c][1].status = 404
        /\ closeCalls[c] = 1


\* The events of c after position i.
After(c, i) == SubSeq(trace[c], i + 1, Len(trace[c]))

\* C6: whenever the route's handler raises inside the middleware-wrapped
\* call, whatever the middleware list, a 500 is sent and the connection is
\* closed without another request being framed or dispatched.
C6_HandlerErrorCloses ==
    \A c \in Accepted :
        \A i \in Events(c, "return") :
            trace[c][i].name # "" =>
                /\ \A j \in (i + 1)..Len(trace[c]) : trace[c][j].ev \notin {"frame", "dispatch"}
                /\ pc[c] \in {"send", "finally", "done"}
                /\ pc[c] \in {"finally", "done"} =>
                      /\ sent[c][Len(sent[c])].status = 500
                      /\ sent[c][Len(sent[c])].req = trace[c][i].req
                /\ pc[c] = "done" => closeCalls[c] = 1

SuccessStatuses == 200..299

\* C7: when the wrapped handler returns normally with a status outside the
\* success class, the connection is closed once that response is written
\* and no further request is framed; the loop goes on only after a success
\* status.
C7_ErrorStatusCloses ==
    \A c \in Accepted :
        \A i \in Events(c, "result") :
            (trace[c][i].name = "" /\ trace[c][i].status \notin SuccessStatuses) =>
                /\ \A j \in (i + 1)..Len(trace[c]) : trace[c][j].ev \notin {"frame", "dispatch"}
                /\ pc[c] \in {"send", "finally", "done"}
                /\ pc[c] = "done" => closeCalls[c] = 1

\* C8: every framing error raised by the framer (malformed start line, bad
\* header line, invalid method or version, invalid Content-Length) is
\* followed by exactly one 400 response and then the close of the socket,
\* with no handler called for the malformed request and nothing framed or
\* dispatched after it.
C8_FramingError ==
    \A c \in Accepted :
        /\ \A i \in Events(c, "badrequest") :
              /\ IsPrefix(After(c, i), << Event("send", 0, 400, ""), Event("close", 0, 0, "") >>)
              /\ pc[c] = "send" => pending[c].status = 400
              /\ pc[c] \in {"finally", "done"} => sent[c][Len(sent[c])].status = 400
              /\ pc[c] = "done" => Len(After(c, i)) = 2 /\ closeCalls[c] = 1
              /\ pc[c] \in {"send", "finally", "done"}
        /\ \A m \in MalformedRequests :
              (input[c] = m \o GetRoot /\ Len(client_buffer[c]) >= Len(m) /\ pc[c] # "parse") =>
                  /\ Cardinality(Events(c, "badrequest")) = 1
                  /\ Events(c, "dispatch") = {}
                  /\ framed[c] = <<>>

\* A header line without a colon was answered with 400 and the socket
\* closed; the valid request pipelined behind it is still in the buffer.
C8_Witness ==
    \E c \in Accepted :
        /\ pc[c] = "done"
        /\ input[c] = HeaderNoColon \o GetRoot
        /\ client_buffer[c] = input[c]
        /\ Len(sent[c]) = 1
        /\ sent[c][1].status = 400
        /\ closeCalls[c] = 1

\* C9: once a read has grown the buffer beyond MAX_BUFFER_SIZE the handler
\* writes a 413 and closes the connection; the buffered partial request is
\* never framed or dispatched.
C9_Overflow ==
    \A c \in Accepted :
        /\ Len(client_buffer[c]) > MAX_BUFFER_SIZE =>
              /\ Events(c, "overflow") # {}
              /\ \/ pc[c] = "send" /\ pending[c].status = 413 /\ pending[c].after = "finally"
                 \/ pc[c] \in {"finally", "done"} /\ sent[c][Len(sent[c])].status = 413
        /\ \A i \in Events(c, "overflow") :
              /\ Len(client_buffer[c]) > MAX_BUFFER_SIZE
              /\ IsPrefix(After(c, i), << Event("send", 0, 413, ""), Event("close", 0, 0, "") >>)
              /\ pc[c] = "done" => Len(After(c, i)) = 2 /\ closeCalls[c] = 1

\* A body that never completes overflowed the buffer: 413, close, nothing
\* framed.
C9_Witness ==
    \E c \in Accepted :
        /\ pc[c] = "done"
        /\ input[c] = HugeBody
        /\ Len(client_buffer[c]) > MAX_BUFFER_SIZE
        /\ framed[c] = <<>>
        /\ sent[c] # <<>>
        /\ sent[c][Len(sent[c])].status = 413
        /\ closeCalls[c] = 1

\* C10: on every path by which handle_client ends, the peer being gone
\* included, client_sock.close() has been called exactly once.
C10_CloseOnce ==
    \A c \in Accepted : pc[c] \in {"done", "crashed"} => closeCalls[c] = 1


Reverse(s) == [i \in 1..Len(s) |-> s[Len(s) + 1 - i]]

\* A(B(...(h))) for the list <<A, B, ...>>.
RECURSIVE Compose(_, _)
Compose(mws, h) ==
    IF mws = <<>> THEN [layers |-> <<>>, base |-> h]
    ELSE ApplyMiddleware(Head(mws), Compose(Tail(mws), h))

\* The wrappers entered and left for request k of c, in the order it happened.
WrapperNames(c, k) ==
    LET es == SelectSeq(trace[c], LAMBDA e : e.req = k /\ e.ev \in {"enter", "exit"})
    IN  [i \in 1..Len(es) |-> es[i].name]

Dispatched(c) == { trace[c][i].req : i \in Events(c, "dispatch") }
Answered(c) == { trace[c][i].req : i \in Events(c, "result") }

\* C11: add_middleware keeps the registration order, and with the list
\* <<A, B>> a request is handled by A(B(h)): A's wrapper is entered before
\* B's and gets the response after B's has.
C11_MiddlewareOrder ==
    /\ middleware_functions = added
    /\ \A c \in Accepted :
          /\ pc[c] \in {"dispatch", "handler"} =>
                wrapper_handler[c] =
                    Compose(added, get_route_info(routes, request[c].method, request[c].path))
          /\ \A k \in Dispatched(c) :
                LET h == get_route_info(routes, framed[c][k].method, framed[c][k].path)
                    w == Compose(added, h)
                    whole == w.layers \o Reverse(w.layers)
                IN  /\ IsPrefix(WrapperNames(c, k), whole)
                    /\ Len(WrapperNames(c, k)) >= Len(w.layers)
                    /\ k \in Answered(c) => WrapperNames(c, k) = whole

\* logger registered before auth: a request for the protected route went in
\* through logger then auth and its response came out through auth then
\* logger.
C11_Witness ==
    \E c \in Accepted :
        /\ added = <<"logger", "auth">>
        /\ 1 \in Answered(c)
        /\ WrapperNames(c, 1) = <<"logger", "auth", "auth", "logger">>
        /\ invoked[c] # <<>>


\* The route handler request k of c resolved to.
RouteHandler(c, k) == get_route_info(routes, framed[c][k].method, framed[c][k].path)

\* The Authorization header is there and reads "Bearer <token>".
BearerHeader(req) == AuthCheck(req.headers, "ok").status = 0

\* C12: a request for a handler marked protected that carries no
\* Authorization header, a header not of the form "Bearer <token>", or a
\* token that is invalid or expired, is answered 401 and the handler is not
\* called; so with auth_middleware registered the handler is called only
\* behind its check of a well-formed header, whatever the middleware order
\* and also when the loader bound static arguments to the handler.
C12_ProtectedRejected ==
    \A c \in Accepted :
        \A k \in Dispatched(c) :
            (RouteHandler(c, k).protected /\ \E m \in 1..Len(added) : added[m] = "auth") =>
                /\ \A i \in Events(c, "call") :
                      trace[c][i].req = k =>
                          /\ BearerHeader(framed[c][k])
                          /\ \E e \in Events(c, "enter") :
                                trace[c][e].req = k /\ trace[c][e].name = "auth"
                /\ ~BearerHeader(framed[c][k]) =>
                      \A i \in Events(c, "result") :
                          trace[c][i].req = k => trace[c][i].status = 401


\* The add_route calls of log for the pair (method, path), method compared
\* in upper case and path as it is, by position in log.
RegsFor(log, method, path) ==
    { i \in 1..Len(log) : upper(log[i].method) = upper(method) /\ log[i].path = path }

Last(S) == CHOOSE i \in S : \A j \in S : j <= i

\* What the most recent registration for (method, path) holds; no static
\* arguments are the empty mapping.
LastReg(log, method, path) ==
    IF RegsFor(log, method, path) = {} THEN NoRoute
    ELSE LET r == log[Last(RegsFor(log, method, path))]
         IN  [handler |-> r.handler,
              handler_args |-> IF r.handler_args = NoArgs THEN EmptyArgs ELSE r.handler_args]

\* The (method, path) pairs the table holds.
Entries(rt) == { <<m, p>> \in (DOMAIN rt) \X LookupPaths : p \in DOMAIN rt[m] }

C14_ResolveMatch ==
    \A method \in RouteMethods \cup {DELETE}, path \in LookupPaths :
        LET result == resolve_route(routes, method, path)
        IN  /\ result # NoRoute <=>
                  \E i \in 1..Len(regLog) :
                      upper(regLog[i].method) = upper(method) /\ regLog[i].path = path
            /\ regLog = <<>> => result = NoRoute
            /\ result = resolve_route(routes, upper(method), path)
            /\ result = resolve_route(routes, lower(method), path)
            /\ (resolved.method = method /\ resolved.path = path /\ resolved.result # NoRoute)
                  => \E i \in 1..Len(regLog) :
                        /\ upper(regLog[i].method) = upper(method) /\ regLog[i].path = path
                        /\ resolved.result.handler = regLog[i].handler

\* "/a" was registered under GET; "get /a" resolved to it although "/A" and
\* "/a/" are not in the table.
C14_Witness ==
    /\ resolved.method = lower(GET)
    /\ resolved.path = PathA
    /\ resolved.result # NoRoute
    /\ Len(regLog) = 1
    /\ regLog[1].method = GET
    /\ resolve_route(routes, GET, upper(PathA)) = NoRoute
    /\ resolve_route(routes, GET, PathA \o <<"/">>) = NoRoute


\* A client-side reader of one response: the status line, the headers up to
\* the blank line, then Content-Length bytes.
ReadHeaders(bytes) ==
    ParseHeaderLines(Tail(split(Take(bytes, find(bytes, Terminator)), CRLF)), <<>>).headers

ReadStatus(bytes) ==
    LET parts == split(split(bytes, CRLF)[1], <<" ">>)
    IN  IF Len(parts) >= 2 /\ IntValid(parts[2]) THEN IntValue(parts[2]) ELSE 0

ReadLength(bytes) ==
    LET v == HeaderGet(ReadHeaders(bytes), ContentLengthName)
    IN  IF IntValid(v) THEN IntValue(v) ELSE 0 - 1

ReadResponse(bytes) ==
    LET header_end == find(bytes, Terminator)
        n          == ReadLength(bytes)
    IN  IF header_end = -1 \/ n < 0 \/ Len(bytes) < header_end + 4 + n THEN NoResponse
        ELSE [status_code |-> ReadStatus(bytes),
              content_type |-> HeaderGet(ReadHeaders(bytes), ContentTypeName),
              content |-> SubSeq(bytes, header_end + 5, header_end + 4 + n)]

\* C15: the serialized response says "Connection: keep-alive" for every
\* status of the success class and "Connection: close" for every other.
C15_ConnectionHeader ==
    wire # <<>> =>
        HeaderGet(ReadHeaders(wire), ConnectionName) =
            IF written.status_code \in SuccessStatuses THEN KeepAlive ELSE Close

FirstLine(buffer) == split(Take(buffer, find(buffer, Terminator) + 4), CRLF)[1]

\* line splits at single spaces into exactly three tokens, a supported
\* method in any casing first and HTTP/1.1 last.
ThreeTokens(line) ==
    LET parts == split(line, SP)
    IN  /\ Len(parts) = 3
        /\ upper(parts[1]) \in SUPPORTED_HTTP_METHODS
        /\ parts[3] = HTTP11

\* The step of c parses a buffer that holds a complete header block.
ParsesBlock(c) ==
    pc[c] = "parse" /\ pc'[c] # "parse" /\ Contains(client_buffer[c], Terminator)
\* The step of c yields a parsed request.
Frames(c) == Len(framed'[c]) > Len(framed[c])
\* The step of c ends in the framing error: 400, then the connection closes.
FramingError(c) ==
    /\ pc'[c] = "send" /\ pending'[c].status = 400 /\ pending'[c].after = "finally"
    /\ framed'[c] = framed[c]

\* C17 as stated: a request is framed only from a buffer whose request
\* line, as received, splits at single spaces into exactly three tokens with
\* a supported method (any casing) and the version HTTP/1.1; every other
\* request line ends in the framing error.
C17_RawRequestLine ==
    [][\A c \in Conns :
          ParsesBlock(c) =>
             IF ThreeTokens(FirstLine(client_buffer[c])) THEN TRUE
             ELSE FramingError(c)]_vars

\* C17, amended: the same of the request line with the whitespace at its
\* two ends removed: a request is framed only if the trimmed line splits at
\* single spaces into exactly three tokens, the first a supported method in
\* any casing and the last exactly HTTP/1.1; any other line ends in the
\* framing error and yields no request.
C17_RequestLine ==
    [][\A c \in Conns :
          ParsesBlock(c) =>
             IF ThreeTokens(strip(FirstLine(client_buffer[c]))) THEN TRUE
             ELSE FramingError(c)]_vars

\* A request line with whitespace before the method or after the version
\* was parsed into the request GET /.
C17_Witness ==
    \E c \in Conns :
        /\ input[c] \in {LeadingSpaceLine, TrailingSpaceLine, TabbedLine}
        /\ Len(framed[c]) = 1
        /\ framed[c][1].method = GET

\* The values of the headers whose name is name in any letter-casing.
HeaderValuesAnyCase(headers, name) ==
    {headers[k] : k \in {h \in DOMAIN headers : lower(h) = lower(name)}}

\* The streams that are one request with a declared body and nothing after.
OneRequestStreams == {PostBody, LowerPost, MixedPost, UpperSmuggle}

\* C18: a framed request has the body length its Content-Length header
\* declares, the header found under any letter-casing of its name: no such
\* header means an empty body, a declared value is a non-negative number
\* and the body has that many bytes; so the bytes of a declared body are
\* never framed as a further request.
C18_ContentLengthAnyCase ==
    \A c \in Conns :
        /\ \A k \in 1..Len(framed[c]) :
              LET req  == framed[c][k]
                  vals == HeaderValuesAnyCase(req.headers, ContentLengthName)
              IN  IF vals = {} THEN req.body = <<>>
                  ELSE \A v \in vals :
                          IntValid(v) /\ IntValue(v) >= 0 /\ Len(req.body) = IntValue(v)
        /\ input[c] \in OneRequestStreams => Len(framed[c]) <= 1

\* The lines of the header block in the buffer that stand between the
\* request line and the blank line that ends the block.
HeaderBlockLines(buffer) == Tail(split(Take(buffer, find(buffer, Terminator)), CRLF))

\* Name and value of a header line: the text before the first colon and the
\* remainder, both trimmed.
LineName(line) == strip(split1(line, <<":">>)[1])
LineValue(line) == strip(split1(line, <<":">>)[2])

\* C19: of the lines between the request line and the terminator, one
\* without a colon makes the parse end in the framing error, and a framed
\* request has exactly the headers these lines give: every line's trimmed
\* name is a header, none is skipped, and a name's value is the trimmed
\* value of the last line that carries the name.
C19_HeaderLines ==
    [][\A c \in Conns :
          ParsesBlock(c) =>
             LET lines == HeaderBlockLines(client_buffer[c])
                 named(n) == {i \in 1..Len(lines) : LineName(lines[i]) = n}
             IN  /\ (\E i \in 1..Len(lines) : ~Contains(lines[i], <<":">>)) => FramingError(c)
                 /\ Frames(c) =>
                      LET headers == framed'[c][Len(framed'[c])].headers
                      IN  /\ DOMAIN headers = {LineName(lines[i]) : i \in 1..Len(lines)}
                          /\ \A n \in DOMAIN headers :
                                \E i \in named(n) :
                                   /\ \A j \in named(n) : j <= i
                                   /\ headers[n] = LineValue(lines[i])]_vars

\* C20: a Request the framer produced and the connection handler
\* dispatched has no header whose name is the empty string.
C20_NoEmptyHeaderName ==
    \A c \in Conns :
        \A k \in Dispatched(c) : <<>> \notin DOMAIN framed[c][k].headers

KeyFields(fields) == SelectSeq(fields, LAMBDA f : f # <<>>)

\* The decoded values of the occurrences of key among fields, in arrival
\* order; an occurrence without "=" counts with the empty string.
Occurrences(fields, key) ==
    LET own == SelectSeq(KeyFields(fields), LAMBDA f : QsField(f).name = key)
    IN  [i \in 1..Len(own) |-> QsField(own[i]).value]

\* C22: the parsed query parameters have exactly the keys that occur in the
\* query; a key that occurs once maps to its single decoded string (the
\* empty string when the occurrence has no "="), a key that occurs n > 1
\* times maps to the list of all n decoded values in arrival order.
C22_QueryParams ==
    LET fields == KeyFields(url.fields)
        keys   == {QsField(fields[i]).name : i \in 1..Len(fields)}
    IN  /\ DOMAIN url.params = keys
        /\ \A key \in keys :
              LET occ == Occurrences(url.fields, key)
              IN  url.params[key] =
                    IF Len(occ) = 1 THEN ScalarParam(occ[1]) ELSE ListParam(occ)

\* A query with a key given twice around a key without "=" was parsed.
C22_Witness ==
    /\ url.fields = << <<"a", "=", "1">>, <<"b">>, <<"a", "=", "2">> >>
    /\ url.params[<<"a">>] = ListParam(<< <<"1">>, <<"2">> >>)
    /\ url.params[<<"b">>] = ScalarParam(<<>>)

(***************************************************************************)
(* load_routes.                                                            *)
(***************************************************************************)
\* The entry is well-formed: an object with method, path and the name of a
\* handler of the registry.
WellFormed(entry) ==
    /\ entry.dict
    /\ entry.method # <<>> /\ entry.path # <<>>
    /\ entry.handler \in DOMAIN handler_map

\* C23: a load from a list with malformed or unrecognized entries (a field
\* missing, a handler name outside the registry, an element of the wrong
\* shape) does not abort: no exception leaves load_routes and every
\* well-formed entry of the list, before or after a bad one, is registered:
\* its (method, path) resolves to the handler of the last well-formed entry
\* for that pair.
C23_SkipMalformed ==
    (loaded.done /\ loaded.config.file = "ok" /\ loaded.config.routes = "list") =>
        LET entries == loaded.config.entries
            good    == {i \in 1..Len(entries) : WellFormed(entries[i])}
            same(i) == {j \in good : /\ upper(entries[j].method) = upper(entries[i].method)
                                     /\ entries[j].path = entries[i].path}
        IN  /\ ~loaded.raised
            /\ \A i \in good :
                  resolve_route(routes, entries[i].method, entries[i].path).handler
                    = LoadCall(entries[Last(same(i))]).handler

\* The configuration cannot be used as a whole.
Unusable(config) == config.file # "ok" \/ config.routes # "list"

ConnState(c) ==
    << pc[c], client_buffer[c], stream[c], peer[c], request[c], wrapper_handler[c],
       pending[c], framed[c], invoked[c], sent[c], closeCalls[c], trace[c] >>

\* C26: a step of one connection, be it a read timeout, a framing error, a
\* handler error, a buffer overflow or a disconnect, changes nothing of any
\* other connection (its buffer, its socket, its responses stay as they
\* are), closes no socket but its own, and leaves the acceptor, the route
\* table and the middleware list as they are.
C26_Isolation ==
    [][\A c \in Conns :
          (pc[c] # "unaccepted" /\ ConnState(c)' # ConnState(c)) =>
             /\ \A d \in Conns \ {c} : ConnState(d)' = ConnState(d)
             /\ phase' = phase /\ listener' = listener
             /\ routes' = routes /\ middleware_functions' = middleware_functions]_vars

\* The first connection was closed after its framing error or overflow
\* while the second, accepted before that, got its 200 afterwards and is
\* still open.
C26_Witness ==
    /\ pc[1] = "done" /\ closeCalls[1] = 1
    /\ \E i \in 1..Len(sent[1]) : sent[1][i].status \in {400, 413}
    /\ pc[2] \notin {"unaccepted", "done"} /\ closeCalls[2] = 0
    /\ Len(sent[2]) = 1 /\ sent[2][1].status = 200
    /\ phase = "serving"

(***************************************************************************)
(* Reads that end the connection, failing sends, responses per request.    *)
(***************************************************************************)
\* C27: once a read returned zero bytes or timed out, the handler is in the
\* finally clause or past it, no response is pending, and after that read
\* nothing is framed, dispatched or handed to the socket, whatever the
\* buffer still holds.
C27_SilentClose ==
    \A c \in Accepted :
        \A i \in Events(c, "eof") \cup Events(c, "timeout") :
            /\ pc[c] \in {"finally", "done", "crashed"}
            /\ pending[c] = NoPending
            /\ \A j \in 1..Len(After(c, i)) : After(c, i)[j].ev = "close"
            /\ \A j \in 1..Len(sent[c]) :
                  \E k \in 1..(i - 1) : /\ trace[c][k].ev = "send"
                                        /\ trace[c][k].status = sent[c][j].status

\* A read timed out with part of a request in the buffer and the socket was
\* closed with nothing ever written to it.
C27_Witness ==
    \E c \in Accepted :
        /\ Events(c, "timeout") # {}
        /\ client_buffer[c] # <<>>
        /\ parse_request_from_buffer(client_buffer[c]).kind = "none"
        /\ sent[c] = <<>>
        /\ pc[c] = "done"

\* C28: once a sendall failed on a connection, the connection is on its way
\* to the close or closed, nothing more is framed or dispatched on it, and
\* the failure has not reached the caller of send_response: no except
\* clause of handle_client answers it with a further send_response call.
C28_SendFailureCloses ==
    \A c \in Accepted :
        \A i \in Events(c, "sendfail") :
            /\ pc[c] \in {"finally", "done", "crashed"}
            /\ pending[c] = NoPending
            /\ \A j \in 1..Len(After(c, i)) : After(c, i)[j].ev = "close"

\* The send_response calls made for request k of c: the positions of the
\* trace where a response for it was handed to send_response, written or not.
Handed(c, k) ==
    {i \in 1..Len(trace[c]) : trace[c][i].ev \in {"send", "sendfail"} /\ trace[c][i].req = k}

\* Request k of c has been dealt with: a later request was framed, or the
\* handler is back at the framer, reading, or closing.
Handled(c, k) ==
    k < Len(framed[c]) \/ pc[c] \in {"parse", "recv", "finally", "done", "crashed"}

\* C29: for every framed request at most one response is handed to
\* send_response, exactly one once the request has been dealt with, and no
\* request has two responses on the socket.
C29_OneResponse ==
    \A c \in Accepted :
        \A k \in 1..Len(framed[c]) :
            /\ Cardinality(Handed(c, k)) <= 1
            /\ Handled(c, k) => Cardinality(Handed(c, k)) = 1
            /\ Cardinality({j \in 1..Len(sent[c]) : sent[c][j].req = k}) <= 1

\* The "call" events of c, in order: one per call of a route handler.
Calls(c) == SelectSeq(trace[c], LAMBDA e : e.ev = "call")

\* The events of kind ev logged for request k of c.
EventsOf(c, ev, k) == {i \in Events(c, ev) : trace[c][i].req = k}

\* Two Requests agree on what the framer produced.
SameRequest(a, b) ==
    /\ a.method = b.method
    /\ a.path = b.path
    /\ a.version = b.version
    /\ a.headers = b.headers
    /\ a.body = b.body
    /\ a.params = b.params

\* C30: for every framed request that resolves to a route the middleware
\* chain is folded around the route's handler once (the callable about to be
\* called is that fold, it is called once, and each of its wrappers is
\* entered once), a request without a route is never dispatched, the route's
\* handler is called at most once per request, and every call of a handler
\* got a Request equal to the framer's output in method, path, version,
\* headers, body and params.
C30_FoldOncePerRequest ==
    \A c \in Accepted :
        /\ \A k \in 1..Len(framed[c]) :
              LET h       == RouteHandler(c, k)
                  w       == WrapHandler(middleware_functions, [layers |-> <<>>, base |-> h])
                  waiting == k = Len(framed[c]) /\ pc[c] = "dispatch"
              IN  /\ h = NoHandler =>
                        EventsOf(c, "dispatch", k) \cup EventsOf(c, "call", k) = {}
                  /\ h # NoHandler =>
                        /\ Cardinality(EventsOf(c, "dispatch", k)) = IF waiting THEN 0 ELSE 1
                        /\ waiting => wrapper_handler[c] = w
                        /\ Cardinality(EventsOf(c, "enter", k)) =
                              IF waiting THEN 0 ELSE Len(w.layers)
                        /\ Cardinality(EventsOf(c, "call", k)) <= 1
                        /\ \A i \in EventsOf(c, "call", k) : trace[c][i].name = h.name
        /\ Len(invoked[c]) = Len(Calls(c))
        /\ \A j \in 1..Len(invoked[c]) :
              /\ Calls(c)[j].req \in 1..Len(framed[c])
              /\ SameRequest(invoked[c][j], framed[c][Calls(c)[j].req])

\* Two requests on one connection with auth_middleware registered: the
\* first went through auth's wrapper, which set request.user, and each
\* reached its handler once with the framed method, path, headers and body.
C30_Witness ==
    \E c \in Accepted :
        /\ input[c] = GetProtectedBearer \o GetRoot
        /\ Len(framed[c]) = 2
        /\ Len(invoked[c]) = 2
        /\ \E i \in EventsOf(c, "enter", 1) : trace[c][i].name = "auth"
        /\ Calls(c)[1].req = 1 /\ Calls(c)[2].req = 2
        /\ invoked[c][1].user = "payload"
        /\ invoked[c][1] # framed[c][1]

\* The step is a framing attempt of c that returned (None, 0).
NeedMoreAttempt(c) ==
    /\ pc[c] = "parse"
    /\ pc'[c] = "recv"

\* C31: a framing attempt that asks for more data changes neither the
\* buffer nor the route table, the middleware list or anything framed,
\* invoked or sent; the framer called again on the buffer it left gives the
\* same answer; and until the first request is framed or refused the buffer
\* followed by the bytes still to come is the client's input, so the
\* attempts made while the buffer grows lose and duplicate no byte.
C31_FramerIdempotent ==
    [][\A c \in Accepted :
          /\ NeedMoreAttempt(c) =>
                /\ parse_request_from_buffer(client_buffer[c]) = NeedMoreData
                /\ client_buffer'[c] = client_buffer[c]
                /\ parse_request_from_buffer(client_buffer'[c]) =
                      parse_request_from_buffer(client_buffer[c])
                /\ << routes, middleware_functions, stream, framed, invoked, sent >>' =
                      << routes, middleware_functions, stream, framed, invoked, sent >>
          /\ (framed'[c] = <<>> /\ pc'[c] \in {"parse", "recv"}) =>
                client_buffer'[c] \o stream'[c] = input[c]]_vars

\* A request whose header block arrived but whose body has not: the buffer
\* holds more than one read can deliver, so the framer has answered
\* (None, 0) on at least two shorter buffers before this one, and every
\* byte delivered is still there.
C31_Witness ==
    \E c \in Accepted :
        /\ input[c] = HugeBody
        /\ pc[c] = "recv"
        /\ Len(client_buffer[c]) > RecvSize
        /\ find(client_buffer[c], Terminator) # -1
        /\ client_buffer[c] \o stream[c] = input[c]
        /\ framed[c] = <<>>

\* C32: once start() has been called no step changes the route table or the
\* middleware list, whichever step of a connection's thread it is (framing,
\* route lookup, fold, wrapper and handler call, send, read, close); both
\* stay what the setup made them.
C32_ReadOnlyAfterStartup ==
    [][phase # "setup" =>
          /\ routes' = routes
          /\ middleware_functions' = middleware_functions
          /\ middleware_functions = added
          /\ phase' # "setup"]_vars

\* With two middleware registered, a connection has been served to its
\* close: a request was looked up, folded, dispatched and answered, and the
\* list is the one the setup registered.
C32_Witness ==
    \E c \in Accepted :
        /\ phase = "serving"
        /\ middleware_functions = <<"logger", "auth">>
        /\ routes # <<>>
        /\ pc[c] = "done"
        /\ invoked[c] # <<>>
        /\ sent[c] # <<>>

\* "HTTP/1.1 <code> Unknown Status\r\n".
FallbackLine(status_code) ==
    HTTP11 \o <<" ">> \o IntToStr(status_code) \o <<" ">> \o UnknownStatus \o CRLF

\* C33: a send_response call with a status code that has no entry in
\* STATUS_LINES writes a response all the same: its status line carries the
\* code and the reason phrase "Unknown Status", its header lines are those
\* a known error code gets for the same content type and body, and it reads
\* back to the code, content type and body of the call.
C33_UnknownStatus ==
    (written # NoResponse /\ written.status_code \notin DOMAIN STATUS_LINES) =>
        /\ IsPrefix(FallbackLine(written.status_code), wire)
        /\ ReadHeaders(wire) =
              ReadHeaders(send_response(404, written.content_type, written.content))
        /\ ReadResponse(wire) = written
        /\ Len(wire) = find(wire, Terminator) + 4 + Len(written.content)

\* A 413 with a body was written under the fallback phrase.
C33_Witness ==
    /\ written.status_code = 413
    /\ written.content # <<>>
    /\ IsPrefix(FallbackLine(413), wire)
    /\ {401, 409, 413} \cap DOMAIN STATUS_LINES = {}

\* The Connection header send_response writes for a status code.
ConnectionHeader(status_code) ==
    HeaderGet(ReadHeaders(send_response(status_code, TextPlain, <<>>)), ConnectionName)

\* C34: after a response written with "Connection: close" the connection's
\* thread does nothing more than close the socket: no further request is
\* framed; after a response written with "Connection: keep-alive" it goes
\* back to framing and reading on the same socket.
C34_ConnectionHeaderKept ==
    \A c \in Accepted :
        \A i \in Events(c, "send") :
            IF ConnectionHeader(trace[c][i].status) = Close
            THEN /\ \A j \in (i + 1)..Len(trace[c]) : trace[c][j].ev = "close"
                 /\ pc[c] \in {"finally", "done"}
            ELSE /\ ConnectionHeader(trace[c][i].status) = KeepAlive
                 /\ i < Len(trace[c]) => trace[c][i + 1].ev # "close"
                 /\ i = Len(trace[c]) => pc[c] \in {"parse", "recv"}

\* The auth wrapper was entered for request k of c.
AuthEntered(c, k) == \E i \in EventsOf(c, "enter", k) : trace[c][i].name = "auth"

\* The Requests the route handler was called with for request k of c.
InvokedFor(c, k) == {invoked[c][j] : j \in {n \in 1..Len(invoked[c]) : Calls(c)[n].req = k}}

\* The wrapped callable answered request k of c with 401.
Rejected(c, k) == \E i \in EventsOf(c, "result", k) : trace[c][i].status = 401

\* C35: for a request that entered the auth wrapper, the handler is called
\* only behind a well-formed bearer header, after the wrapper was entered,
\* and with request.user set to the decoded payload; when the wrapper
\* answers 401 the handler is not called and request.user is still None.
C35_PrincipalBeforeHandler ==
    \A c \in Accepted :
        \A k \in 1..Len(framed[c]) :
            AuthEntered(c, k) =>
                /\ \A i \in EventsOf(c, "call", k) :
                      /\ BearerHeader(framed[c][k])
                      /\ \E e \in EventsOf(c, "enter", k) : e < i /\ trace[c][e].name = "auth"
                /\ \A r \in InvokedFor(c, k) : r.user = "payload"
                /\ Rejected(c, k) =>
                      /\ EventsOf(c, "call", k) = {}
                      /\ InvokedFor(c, k) = {}
                      /\ k = Len(framed[c]) => request[c].user = "None"

\* One connection asked for the protected route twice: the first request
\* carried a bearer token that decoded and reached the handler with the
\* payload as request.user, the second carried none and was answered 401.
C35_Witness ==
    \E c \in Accepted :
        /\ Len(framed[c]) = 2
        /\ AuthEntered(c, 1) /\ AuthEntered(c, 2)
        /\ \E r \in InvokedFor(c, 1) : r.user = "payload"
        /\ Rejected(c, 2)
        /\ request[c].user = "None"

\* C36: every Request is built with user None; it is still None when the
\* wrapped callable is about to be called; a handler sees a user only for a
\* request that itself went through the auth wrapper with a bearer header,
\* so neither the request handled before it on the connection nor a request
\* in flight on another connection shows through.
C36_PrincipalNotShared ==
    \A c \in Accepted :
        /\ pc[c] = "dispatch" => request[c].user = "None"
        /\ \A k \in 1..Len(framed[c]) :
              /\ framed[c][k].user = "None"
              /\ \A r \in InvokedFor(c, k) :
                    r.user # "None" => AuthEntered(c, k) /\ BearerHeader(framed[c][k])
              /\ ~AuthEntered(c, k) => \A r \in InvokedFor(c, k) : r.user = "None"

\* The first connection authenticated its first request and then had its
\* second, public, request handled without a user, while the handler of the
\* other connection's authenticated request was still running.
C36_Witness ==
    /\ Len(invoked[1]) = 2
    /\ invoked[1][1].user = "payload"
    /\ invoked[1][2].user = "None"
    /\ pc[2] = "handler"
    /\ request[2].user = "payload"

\* C37: whenever the framer is about to be tried, and while a request
\* framed from the buffer is being dispatched and handled, the buffer holds
\* at most MAX_BUFFER_SIZE bytes; at any time it holds at most
\* MAX_BUFFER_SIZE plus the bytes of one read, and it is above the cap only
\* on the way from the read that overflowed it to the close.
C37_BufferBound ==
    \A c \in Accepted :
        /\ Len(client_buffer[c]) <= MAX_BUFFER_SIZE + RecvSize
        /\ pc[c] \in {"parse", "dispatch", "handler", "recv"} =>
              Len(client_buffer[c]) <= MAX_BUFFER_SIZE
        /\ Len(client_buffer[c]) > MAX_BUFFER_SIZE =>
              /\ Events(c, "overflow") # {}
              /\ \A i \in Events(c, "overflow") :
                    \A j \in (i + 1)..Len(trace[c]) :
                        trace[c][j].ev \in {"send", "sendfail", "close"}

\* A read took the buffer over the cap: the 413 is about to be sent and
\* nothing was framed from that buffer.
C37_Witness ==
    \E c \in Accepted :
        /\ Len(client_buffer[c]) > MAX_BUFFER_SIZE
        /\ pc[c] = "send"
        /\ pending[c].status = 413
        /\ framed[c] = <<>>

\* The bytes of c's input that are neither waiting on the socket nor in the
\* buffer: those the framings have consumed.
ConsumedBytes(c) == Len(input[c]) - Len(stream[c]) - Len(client_buffer[c])

\* C38: a framing attempt that yields a request consumes at least one byte
\* and at most the buffer (0 < consumed <= len(buffer)) and leaves the
\* buffer shorter by that amount; an attempt that yields none goes to the
\* socket read or, on a framing error, leaves the loop; so the requests
\* framed never outnumber the bytes consumed and the loop cannot turn
\* without end on the bytes it has.
C38_FramingProgress ==
    [][\A c \in Accepted :
          /\ (pc[c] = "parse" /\ pc'[c] # "parse") =>
                LET r == parse_request_from_buffer(client_buffer[c])
                IN  CASE r.kind = "request" ->
                            /\ 0 < r.consumed
                            /\ r.consumed <= Len(client_buffer[c])
                            /\ Len(client_buffer'[c]) = Len(client_buffer[c]) - r.consumed
                            /\ Len(client_buffer'[c]) < Len(client_buffer[c])
                            /\ Len(framed'[c]) = Len(framed[c]) + 1
                      [] r.kind = "none" ->
                            /\ r.consumed = 0
                            /\ pc'[c] = "recv"
                            /\ framed'[c] = framed[c]
                      [] OTHER ->
                            /\ pc'[c] = "send"
                            /\ pending'[c].after = "finally"
                            /\ framed'[c] = framed[c]
          /\ Len(framed'[c]) # Len(framed[c]) => pc[c] = "parse"
          /\ Len(framed'[c]) <= ConsumedBytes(c)']_vars

\* Two pipelined requests, the first with a body, were framed one after
\* the other, each framing taking its bytes off the buffer; every byte of
\* the input has been consumed.
C38_Witness ==
    \E c \in Accepted :
        /\ input[c] = PostBody \o GetRoot
        /\ Len(framed[c]) = 2
        /\ stream[c] = <<>>
        /\ client_buffer[c] = <<>>
        /\ ConsumedBytes(c) = Len(input[c])

\* C39: every accepted connection gets to the end of handle_client with
\* its socket closed, once the handler calls have ended and the client has
\* stopped sending, however its last read ends (b"", timeout, failure).
C39_EventuallyClosed ==
    \A c \in SoleConn :
        (pc[c] # "unaccepted") ~> (pc[c] = "done" /\ closeCalls[c] = 1)

\* What does hold: the thread always comes to an end, and the socket is
\* closed unless the peer has reset the connection.
C39_EndsAndClosesUnlessReset ==
    \A c \in SoleConn :
        (pc[c] # "unaccepted") ~>
            (\/ pc[c] = "done" /\ closeCalls[c] = 1
             \/ pc[c] = "crashed" /\ peer[c] = "reset")

====
